---- MODULE Spec2Model ----
(***************************************************************************)
(* Model of the forecasting engine of fin_model                            *)
(* (backend/services/statement_calculator.py).                             *)
(*                                                                         *)
(* Numbers.  The Python code computes on floats.  The model computes on    *)
(* exact rationals <<n, d>> (d > 0, gcd(n, d) = 1), so every equation     *)
(* below is an equation of real arithmetic: rounding of the last bits of   *)
(* a float is not modelled.  Inputs are drawn from small sets of values    *)
(* whose denominators stay small.                                          *)
(*                                                                         *)
(* State.  The engine is a library of functions called by the HTTP layer.  *)
(* The state is the last call (fn, args), what it returned (ret) and the   *)
(* wall clock (today), which calculate_*_statements reads when the input   *)
(* carries no currentDate.                                                 *)
(***************************************************************************)
EXTENDS Integers, Sequences, FiniteSets, TLC

VARIABLES fn, args, ret, today

vars == <<fn, args, ret, today>>

(***************************************************************************)
(* Bounds of the model                                                     *)
(***************************************************************************)
\* longest loan term, in years
MaxTerm == 3
\* longest useful life of an asset, in years
MaxLife == 4
\* longest forecast horizon N, in years
MaxForecast == 2

(***************************************************************************)
(* Exact arithmetic standing for Python's float operators                  *)
(***************************************************************************)
Abs(x) == IF x < 0 THEN -x ELSE x

RECURSIVE GCD(_, _)
GCD(a, b) == IF b = 0 THEN a ELSE GCD(b, a % b)

\* the rational n/d in lowest terms, d # 0
Norm(n, d) ==
    LET s == IF d < 0 THEN -1 ELSE 1
        g == GCD(Abs(n), Abs(d))
    IN  IF n = 0 THEN <<0, 1>> ELSE <<(s * n) \div g, (s * d) \div g>>

R(n) == <<n, 1>>

\* a + b
QAdd(a, b) ==
    LET g == GCD(a[2], b[2])
        l == (a[2] \div g) * b[2]
    IN  Norm(a[1] * (l \div a[2]) + b[1] * (l \div b[2]), l)

\* -a
QNeg(a) == <<-a[1], a[2]>>

\* a - b
QSub(a, b) == QAdd(a, QNeg(b))

\* a * b
QMul(a, b) ==
    LET g1 == GCD(Abs(a[1]), b[2])
        g2 == GCD(Abs(b[1]), a[2])
    IN  IF a[1] = 0 \/ b[1] = 0 THEN <<0, 1>>
        ELSE <<(a[1] \div g1) * (b[1] \div g2), (a[2] \div g2) * (b[2] \div g1)>>

\* a / b, b # 0
QDiv(a, b) == QMul(a, Norm(b[2], b[1]))

\* a < b
QLt(a, b) == QSub(a, b)[1] < 0

\* a <= b
QLe(a, b) == QSub(a, b)[1] <= 0

\* max(a, b) and min(a, b)
QMax(a, b) == IF QLt(a, b) THEN b ELSE a

QMin(a, b) == IF QLt(b, a) THEN b ELSE a

\* a ** n for a natural number n
RECURSIVE QPow(_, _)
QPow(a, n) == IF n = 0 THEN R(1) ELSE QMul(a, QPow(a, n - 1))

\* sum(s) of a sequence of numbers
RECURSIVE QSum(_)
QSum(s) == IF s = <<>> THEN R(0) ELSE QAdd(QSum(SubSeq(s, 1, Len(s) - 1)), s[Len(s)])

(***************************************************************************)
(* Amortization Engine: generate_amortization_table                        *)
(***************************************************************************)
\* the annuity payment of a loan
AnnuityPayment(loan_amount, period_rate, n_periods) ==
    IF QLt(R(0), period_rate)
    THEN QDiv(QMul(loan_amount, QMul(period_rate, QPow(QAdd(R(1), period_rate), n_periods))),
              QSub(QPow(QAdd(R(1), period_rate), n_periods), R(1)))
    ELSE QDiv(loan_amount, R(n_periods))

\* AmortRow with the whole payment, not the principal, taken off the balance
AmortRow_SubtractsPayment(period, n_periods, balance, payment, period_rate) ==
    LET interest == QMul(balance, period_rate)
        principal == QSub(payment, interest)
    IN  IF period = n_periods
        THEN [period |-> period, beginning_balance |-> balance,
              payment |-> QAdd(balance, interest), interest |-> interest,
              principal |-> balance, ending_balance |-> R(0)]
        ELSE [period |-> period, beginning_balance |-> balance,
              payment |-> payment, interest |-> interest,
              principal |-> principal, ending_balance |-> QSub(balance, payment)]

\* one row of the table, for the balance at the start of the period
AmortRow(period, n_periods, balance, payment, period_rate) ==
    LET interest == QMul(balance, period_rate)
        principal == QSub(payment, interest)
    IN  IF period = n_periods
        THEN [period |-> period, beginning_balance |-> balance,
              payment |-> QAdd(balance, interest), interest |-> interest,
              principal |-> balance, ending_balance |-> R(0)]
        ELSE [period |-> period, beginning_balance |-> balance,
              payment |-> payment, interest |-> interest,
              principal |-> principal, ending_balance |-> QSub(balance, principal)]

\* the loop over the periods: the rows from `period` on
RECURSIVE AmortLoop(_, _, _, _, _)
AmortLoop(period, n_periods, balance, payment, period_rate) ==
    IF period > n_periods THEN <<>>
    ELSE LET row == AmortRow(period, n_periods, balance, payment, period_rate)
         IN  <<row>> \o AmortLoop(period + 1, n_periods, row.ending_balance,
                                  payment, period_rate)

\* generate_amortization_table with one period per year whatever is asked
generate_amortization_table_IgnoresPeriods(loan_amount, annual_rate, years, periods_per_year) ==
    LET n_periods == years
        period_rate == QDiv(annual_rate, R(periods_per_year))
    IN  IF n_periods = 0 THEN <<>>
        ELSE AmortLoop(1, n_periods, loan_amount,
                       AnnuityPayment(loan_amount, period_rate, n_periods), period_rate)

\* generate_amortization_table returning no rows for a loan of amount 0
generate_amortization_table_EmptyForZeroLoan(loan_amount, annual_rate, years, periods_per_year) ==
    LET n_periods == years * periods_per_year
        period_rate == QDiv(annual_rate, R(periods_per_year))
    IN  IF n_periods = 0 \/ loan_amount = R(0) THEN <<>>
        ELSE AmortLoop(1, n_periods, loan_amount,
                       AnnuityPayment(loan_amount, period_rate, n_periods), period_rate)

generate_amortization_table(loan_amount, annual_rate, years, periods_per_year) ==
    LET n_periods == years * periods_per_year
        period_rate == QDiv(annual_rate, R(periods_per_year))
    IN  IF n_periods = 0 THEN <<>>
        ELSE AmortLoop(1, n_periods, loan_amount,
                       AnnuityPayment(loan_amount, period_rate, n_periods), period_rate)

(***************************************************************************)
(* Depreciation Engine                                                     *)
(***************************************************************************)
\* calc_depr_straight_line spreading the whole cost, salvage forgotten
calc_depr_straight_line_NoSalvage(cost, useful_life, salvage) ==
    [i \in 1..useful_life |-> QDiv(cost, R(useful_life))]

calc_depr_straight_line(cost, useful_life, salvage) ==
    [i \in 1..useful_life |-> QDiv(QSub(cost, salvage), R(useful_life))]

\* a charge that is never cut at the salvage value
DoubleDecliningCharge_NoSalvageFloor(book, rate, salvage) == QMul(book, rate)

\* one year of the double-declining loop: the depreciation charged on `book`
DoubleDecliningCharge(book, rate, salvage) ==
    LET d == QMul(book, rate)
    IN  IF QLt(QSub(book, d), salvage) THEN QSub(book, salvage) ELSE d

\* the loop, from year index `year` (0-based) on, with its break and the padding
RECURSIVE DoubleDecliningLoop(_, _, _, _, _)
DoubleDecliningLoop(year, useful_life, book, rate, salvage) ==
    IF year >= useful_life THEN <<>>
    ELSE LET d == DoubleDecliningCharge(book, rate, salvage)
             next == QSub(book, d)
         IN  IF QLe(next, salvage)
             THEN <<QMax(d, R(0))>> \o [i \in 1..(useful_life - year - 1) |-> R(0)]
             ELSE <<QMax(d, R(0))>> \o
                  DoubleDecliningLoop(year + 1, useful_life, next, rate, salvage)

calc_depr_double_declining(cost, useful_life, salvage) ==
    DoubleDecliningLoop(0, useful_life, cost, QDiv(R(2), R(useful_life)), salvage)

calc_depr_syd(cost, useful_life, salvage) ==
    LET syd == (useful_life * (useful_life + 1)) \div 2
    IN  [i \in 1..useful_life |->
            QMul(QDiv(R(useful_life - (i - 1)), R(syd)), QSub(cost, salvage))]

\* the schedule of one method, as calculate_*_statements selects it
DepreciationSchedule(method, cost, useful_life, salvage) ==
    CASE method = "double_declining" -> calc_depr_double_declining(cost, useful_life, salvage)
      [] method = "sum_of_years_digits" -> calc_depr_syd(cost, useful_life, salvage)
      [] OTHER -> calc_depr_straight_line(cost, useful_life, salvage)

calc_depr_units_of_production(cost, total_units, units_per_year, salvage) ==
    IF total_units = R(0) \/ units_per_year = <<>>
    THEN [i \in 1..Len(units_per_year) |-> R(0)]
    ELSE [i \in 1..Len(units_per_year) |->
            QMul(QDiv(QSub(cost, salvage), total_units), units_per_year[i])]

\* the fraction of the fiscal year an asset bought in purchase_month is held
calc_partial_year_fraction(purchase_month, fiscal_month) ==
    LET months_held == IF purchase_month >= fiscal_month
                       THEN 12 - (purchase_month - fiscal_month)
                       ELSE fiscal_month - purchase_month
    IN  QMax(QMin(QDiv(R(months_held), R(12)), R(1)), R(0))

(***************************************************************************)
(* Statement Builder: the input record `data` (BusinessInputs)             *)
(*                                                                         *)
(* data.sector is the company_type.  data.items is the revenue-driver list *)
(* (retail 'products': price, units, cost, growthRate; service 'services': *)
(* price, clients, cost, growth; saas 'plans': price, users, costPerUser,  *)
(* growth), written here with the fields price, volume, cost, growth.      *)
(* A date is <<year, month>>; <<>> stands for a missing key (None).        *)
(* Array index i of the code is index i + 1 of the model's sequences.      *)
(***************************************************************************)
get_fiscal_year_start_month(month_name) ==
    CASE month_name = "January" -> 1
      [] month_name = "February" -> 2
      [] month_name = "March" -> 3
      [] month_name = "April" -> 4
      [] month_name = "May" -> 5
      [] month_name = "June" -> 6
      [] month_name = "July" -> 7
      [] month_name = "August" -> 8
      [] month_name = "September" -> 9
      [] month_name = "October" -> 10
      [] month_name = "November" -> 11
      [] month_name = "December" -> 12
      [] OTHER -> 1

\* global_rates.get(key, default) / 100 and the useForLoans flag
get_interest_rates(data) ==
    IF data.globalInterestRates = <<>>
    THEN [short_term |-> QDiv(R(5), R(100)), long_term |-> QDiv(R(6), R(100)),
          investment |-> QDiv(R(4), R(100)), use_for_loans |-> FALSE]
    ELSE [short_term |-> QDiv(data.globalInterestRates.shortTerm, R(100)),
          long_term |-> QDiv(data.globalInterestRates.longTerm, R(100)),
          investment |-> QDiv(data.globalInterestRates.investment, R(100)),
          use_for_loans |-> data.globalInterestRates.useForLoans]

\* forecast_years: int(forecastPeriod), at least 1
ForecastYears(data) == IF data.forecastPeriod < 1 THEN 1 ELSE data.forecastPeriod

\* total_years: 1 actual + N forecast
TotalYears(data) == ForecastYears(data) + 1

TaxRate(data) == QDiv(data.taxRate, R(100))

FiscalMonth(data) == get_fiscal_year_start_month(data.fiscalYearStart)

\* current_date: the input's currentDate, or the clock
CurrentDate(data) == IF data.currentDate # <<>> THEN data.currentDate ELSE today

\* the fiscal year a date falls in
FiscalYearOf(date, fiscal_month) ==
    IF date[2] >= fiscal_month THEN date[1] ELSE date[1] - 1

BaseYear(data) == FiscalYearOf(CurrentDate(data), FiscalMonth(data))

\* years[i]: the label f"FY{base_year + i}-{fiscal_year_start}", a str
YearLabel(data, i) ==
    [type |-> "str", fy |-> BaseYear(data) + i, start |-> data.fiscalYearStart]

\* an int used as a dict key
IntKey(n) == [type |-> "int", fy |-> n, start |-> ""]

\* annualize_units / annualize_clients / annualize_users
Annualize(data, val) ==
    IF data.revenueInputType = "monthly" THEN QMul(val, R(12)) ELSE val

(***************************************************************************)
(* CapEx and depreciation per year                                         *)
(***************************************************************************)
\* purchase_date: the parsed purchaseDate, current_date when missing or bad
PurchaseDate(data, eq) ==
    IF eq.purchaseDate = <<>> \/ eq.purchaseDate[2] \notin 1..12
    THEN CurrentDate(data) ELSE eq.purchaseDate

\* purchase_idx: purchases before the base year collapse into index 0
PurchaseIdx(data, eq) ==
    LET purchase_fiscal_year == FiscalYearOf(PurchaseDate(data, eq), FiscalMonth(data))
    IN  IF purchase_fiscal_year < BaseYear(data) THEN 0
        ELSE purchase_fiscal_year - BaseYear(data)

\* int(usefulLife or 5)
UsefulLife(eq) == IF eq.usefulLife = 0 THEN 5 ELSE eq.usefulLife

\* depr_sched[0] = depr_sched[0] * fraction, except for units of production
ApplyPartialYear(method, sched, fraction) ==
    IF method # "units_of_production" /\ sched # <<>>
    THEN [sched EXCEPT ![1] = QMul(sched[1], fraction)]
    ELSE sched

\* depr_sched of one asset, the first entry scaled by the partial-year fraction
EquipmentSchedule(data, eq) ==
    ApplyPartialYear(eq.depreciationMethod,
        IF eq.depreciationMethod = "units_of_production"
        THEN calc_depr_units_of_production(eq.cost, eq.totalUnits,
                                           eq.unitsPerYear, eq.salvageValue)
        ELSE DepreciationSchedule(eq.depreciationMethod, eq.cost,
                                  UsefulLife(eq), eq.salvageValue),
        calc_partial_year_fraction(PurchaseDate(data, eq)[2], FiscalMonth(data)))

\* capex[i], i in 0..total_years-1
Capex(data, i) ==
    QSum([k \in 1..Len(data.equipment) |->
            IF PurchaseIdx(data, data.equipment[k]) = i
            THEN data.equipment[k].cost ELSE R(0)])

\* the entry of a schedule at offset j (0-based), 0 outside the schedule
ScheduleEntry(sched, j) ==
    IF 0 <= j /\ j < Len(sched) THEN sched[j + 1] ELSE R(0)

\* depreciation[i], i in 0..total_years-1
Depreciation(data, i) ==
    QSum([k \in 1..Len(data.equipment) |->
            ScheduleEntry(EquipmentSchedule(data, data.equipment[k]),
                          i - PurchaseIdx(data, data.equipment[k]))])

(***************************************************************************)
(* Base values and forecast arrays                                         *)
(***************************************************************************)
BaseLoans(data) == QSum([k \in 1..Len(data.loans) |-> data.loans[k].amount])

BaseOtherIncome(data) ==
    QSum([k \in 1..Len(data.other) |->
            IF data.other[k].isIncome THEN data.other[k].amount ELSE R(0)])

BaseOtherCosts(data) ==
    QSum([k \in 1..Len(data.other) |->
            IF data.other[k].isIncome THEN R(0) ELSE data.other[k].amount])

\* investment income: the specific amount, else amount x the investment rate
BaseInvestmentIncome(data) ==
    QSum([k \in 1..Len(data.investments) |->
            LET inv == data.investments[k]
            IN  IF ~inv.income THEN R(0)
                ELSE IF QLt(R(0), inv.incomeAmount) THEN inv.incomeAmount
                ELSE QMul(inv.amount, get_interest_rates(data).investment)])

\* a SaaS plan that passes the validation: price > 0, users > 0, costPerUser >= 0
ValidPlan(p) == QLt(R(0), p.price) /\ QLt(R(0), p.volume) /\ QLe(R(0), p.cost)

\* a forecast that reads every plan, valid or not
DriverLines_AllPlans(data) == data.items

\* the revenue lines the forecast reads: products, services, or the valid plans
DriverLines(data) ==
    IF data.sector = "saas" THEN SelectSeq(data.items, ValidPlan) ELSE data.items

\* (1 + growth / 100) ** year
YearFactor(growth, year) == QPow(QAdd(R(1), QDiv(growth, R(100))), year)

\* revenue[year]: every line grown at its own rate, then summed
Revenue(data, year) ==
    LET lines == DriverLines(data)
    IN  QSum([k \in 1..Len(lines) |->
                QMul(QMul(lines[k].price, Annualize(data, lines[k].volume)),
                     YearFactor(lines[k].growth, year))])

\* cogs[year]
Cogs(data, year) ==
    LET lines == DriverLines(data)
    IN  QSum([k \in 1..Len(lines) |->
                QMul(QMul(lines[k].cost, Annualize(data, lines[k].volume)),
                     YearFactor(lines[k].growth, year))])

\* expenses_forecast[year], year < total_years (the entries the second loop
\* appends after index total_years - 1 are read by no statement)
ExpensesForecast(data, year) ==
    QSum([k \in 1..Len(data.expenses) |->
            QMul(QMul(data.expenses[k].amount, R(12)),
                 YearFactor(data.expenses[k].growthRate, year))])

\* loan_proceeds[i]: all loans in year index 0
LoanProceeds(data, i) == IF i = 0 THEN BaseLoans(data) ELSE R(0)

(***************************************************************************)
(* Income statement, before the loans' interest                            *)
(***************************************************************************)
Taxes(ebt, tax_rate) == IF QLt(R(0), ebt) THEN QMul(ebt, tax_rate) ELSE R(0)

\* one income-statement record from the year's lines
IncomeLines(year, revenue, cogs, operating_expenses, other_income, investment_income, other_costs, da, tax_rate) ==
    LET gross_profit == QSub(revenue, cogs)
        ebitda == QSub(QAdd(QAdd(QSub(gross_profit, operating_expenses), other_income),
                            investment_income),
                       other_costs)
        ebit == QSub(ebitda, da)
        ebt == QSub(ebit, R(0))
        taxes == Taxes(ebt, tax_rate)
    IN  [year |-> year,
         revenue |-> revenue,
         cogs |-> cogs,
         gross_profit |-> gross_profit,
         operating_expenses |-> operating_expenses,
         other_income |-> other_income,
         investment_income |-> investment_income,
         other_costs |-> other_costs,
         ebitda |-> ebitda,
         depreciation_amortization |-> da,
         ebit |-> ebit,
         interest_expense |-> R(0),
         ebt |-> ebt,
         taxes |-> taxes,
         net_income |-> QSub(ebt, taxes)]

IncomeStatementYear(data, i) ==
    IncomeLines(YearLabel(data, i), Revenue(data, i), Cogs(data, i),
                ExpensesForecast(data, i), BaseOtherIncome(data),
                BaseInvestmentIncome(data), BaseOtherCosts(data),
                Depreciation(data, i), TaxRate(data))

\* the income statement of years 0..N, interest not yet applied
InitialIncomeStatement(data) ==
    [k \in 1..TotalYears(data) |-> IncomeStatementYear(data, k - 1)]

(***************************************************************************)
(* Loans: one amortization table per loan, placed at the loan's start index *)
(***************************************************************************)
\* years_loan (retail reads `years or forecast_years`)
LoanYears(data, loan) ==
    IF data.sector = "retail" /\ loan.years = 0 THEN ForecastYears(data) ELSE loan.years

\* the global short- or long-term rate when enabled, else the loan's own rate
ChooseLoanRate(rates, years_loan, own_rate) ==
    IF rates.use_for_loans
    THEN IF years_loan <= 1 THEN rates.short_term ELSE rates.long_term
    ELSE own_rate

\* annual_rate: the global short/long rate, or the loan's own (retail: `rate or 6`)
LoanAnnualRate(data, loan) ==
    ChooseLoanRate(get_interest_rates(data), LoanYears(data, loan),
                   IF data.sector = "retail" /\ loan.rate = R(0)
                   THEN QDiv(R(6), R(100))
                   ELSE QDiv(loan.rate, R(100)))

\* loan_start_idx: from startDate and the base fiscal year, clamped to >= 0
LoanStartIdx(data, loan) ==
    IF loan.startDate = <<>> \/ loan.startDate[2] \notin 1..12 THEN 0
    ELSE LET idx == FiscalYearOf(loan.startDate, FiscalMonth(data)) - BaseYear(data)
         IN  IF idx < 0 THEN 0 ELSE idx

\* amort_table of one loan: annual payments
LoanTable(data, loan) ==
    generate_amortization_table(loan.amount, LoanAnnualRate(data, loan),
                                LoanYears(data, loan), 1)

\* amortization_tables: built only if base_loans > 0 and loans is non-empty
AmortizationTables(data) ==
    IF QLt(R(0), BaseLoans(data)) /\ data.loans # <<>>
    THEN [k \in 1..Len(data.loans) |-> LoanTable(data, data.loans[k])]
    ELSE <<>>

\* the per-year accumulators before any loan
EmptyLoanTotals(data) ==
    [total_interest_by_year |-> [y \in 1..ForecastYears(data) |-> R(0)],
     total_principal_by_year |-> [y \in 1..ForecastYears(data) |-> R(0)],
     principal_remaining_by_year |-> [y \in 1..TotalYears(data) |-> R(0)],
     short_term_debt_by_year |-> [y \in 1..TotalYears(data) |-> R(0)],
     long_term_debt_by_year |-> [y \in 1..TotalYears(data) |-> R(0)]]

\* the loop over the rows of one table, from row index i on
RECURSIVE AccumulateRows(_, _, _, _, _, _)
AccumulateRows(acc, amort_table, i, principal_remaining, loan_start_idx, forecast_years) ==
    IF i >= Len(amort_table) THEN acc
    ELSE LET year_idx == loan_start_idx + i
             row == amort_table[i + 1]
             next_principal == IF i + 1 < Len(amort_table)
                               THEN amort_table[i + 2].principal ELSE R(0)
         IN  IF 0 <= year_idx /\ year_idx < forecast_years
             THEN AccumulateRows(
                    [acc EXCEPT
                       !.total_interest_by_year[year_idx + 1] = QAdd(@, row.interest),
                       !.total_principal_by_year[year_idx + 1] = QAdd(@, row.principal),
                       !.principal_remaining_by_year[year_idx + 1] =
                            QAdd(@, principal_remaining),
                       !.short_term_debt_by_year[year_idx + 1] = QAdd(@, next_principal),
                       !.long_term_debt_by_year[year_idx + 1] =
                            QAdd(@, QMax(QSub(principal_remaining, next_principal), R(0)))],
                    amort_table, i + 1, QSub(principal_remaining, row.principal),
                    loan_start_idx, forecast_years)
             ELSE AccumulateRows(acc, amort_table, i + 1, principal_remaining,
                                 loan_start_idx, forecast_years)

\* the loop over the loans, from loan k on
RECURSIVE AccumulateLoans(_, _, _)
AccumulateLoans(data, acc, k) ==
    IF k > Len(data.loans) THEN acc
    ELSE AccumulateLoans(data,
            AccumulateRows(acc, LoanTable(data, data.loans[k]), 0, data.loans[k].amount,
                           LoanStartIdx(data, data.loans[k]), ForecastYears(data)),
            k + 1)

LoanTotals(data) ==
    IF QLt(R(0), BaseLoans(data)) /\ data.loans # <<>>
    THEN AccumulateLoans(data, EmptyLoanTotals(data), 1)
    ELSE EmptyLoanTotals(data)

\* one income-statement record with the year's interest applied
\* interest applied without recomputing the taxes
ApplyInterest_TaxesKept(rec, interest, tax_rate) == [rec EXCEPT !.interest_expense = interest, !.ebt = QSub(rec.ebt, interest), !.net_income = QSub(QSub(rec.ebt, interest), rec.taxes)]

ApplyInterest(rec, interest, tax_rate) ==
    LET ebt == QSub(rec.ebt, interest)
        taxes == Taxes(ebt, tax_rate)
    IN  [rec EXCEPT !.interest_expense = interest, !.ebt = ebt, !.taxes = taxes,
                    !.net_income = QSub(ebt, taxes)]

\* the loop that adds interest expense to year indexes 0..forecast_years-1
InterestPass(initial, totals, forecast_years, tax_rate) ==
    [k \in 1..Len(initial) |->
        IF k - 1 < forecast_years
        THEN ApplyInterest(initial[k], totals.total_interest_by_year[k], tax_rate)
        ELSE initial[k]]

\* the income statement returned
IncomeStatement(data) ==
    InterestPass(InitialIncomeStatement(data), LoanTotals(data), ForecastYears(data),
                 TaxRate(data))

(***************************************************************************)
(* Working capital and investment flows                                    *)
(***************************************************************************)
\* ar: credit sales x collection days / 365, 0 without collection days
AccountsReceivable(data, i) ==
    IF QLt(R(0), data.creditSales.collectionDays)
    THEN QDiv(QMul(QMul(Revenue(data, i), QDiv(data.creditSales.percent, R(100))),
                   data.creditSales.collectionDays), R(365))
    ELSE R(0)

\* inventory: cogs x inventory days / 365
Inventory(data, i) ==
    IF QLt(R(0), data.inventoryDays)
    THEN QDiv(QMul(Cogs(data, i), data.inventoryDays), R(365))
    ELSE R(0)

\* ap: cogs x payable days / 365
AccountsPayable(data, i) ==
    IF QLt(R(0), data.accountsPayable.days)
    THEN QDiv(QMul(Cogs(data, i), data.accountsPayable.days), R(365))
    ELSE R(0)

\* inv_date: int(inv.get('date', current_date.year)), a calendar year
InvDate(data, inv) == IF inv.date = <<>> THEN CurrentDate(data)[1] ELSE inv.date[1]

\* maturity_year: a year, or a duration in years when below 1900; inv_date if missing
MaturityYear(data, inv) ==
    IF inv.maturity = <<>> THEN InvDate(data, inv)
    ELSE IF inv.maturity[1] < 1900 THEN InvDate(data, inv) + inv.maturity[1]
    ELSE inv.maturity[1]

\* investment_outflows[key] of the retail cash flow: a dict whose keys are the
\* year labels years[:forecast_years]; `inv_date in investment_outflows` looks
\* the int inv_date up among them
InvestmentOutflows(data, key) ==
    QSum([k \in 1..Len(data.investments) |->
            IF IntKey(InvDate(data, data.investments[k])) = key
            THEN data.investments[k].amount ELSE R(0)])

\* investment_inflows[key]: amount + expected return, keyed by the maturity year
InvestmentInflows(data, key) ==
    QSum([k \in 1..Len(data.investments) |->
            IF IntKey(MaturityYear(data, data.investments[k])) = key
            THEN QAdd(data.investments[k].amount, data.investments[k].expectedReturn)
            ELSE R(0)])

\* the opening cash of the first year: self_funding + base_loans - capex[0]
InitialCash(data) == QSub(QAdd(data.selfFunding, BaseLoans(data)), Capex(data, 0))

\* the principal of row i (0-based) of every table that has one
PrincipalOfRow(tables, i) ==
    QSum([k \in 1..Len(tables) |->
            IF i < Len(tables[k]) THEN tables[k][i + 1].principal ELSE R(0)])

\* the scheduled principal of year index i: row i of every table, whatever the
\* loan's start index
ScheduledPrincipal(data, i) == PrincipalOfRow(AmortizationTables(data), i)

\* sum(x[1] for x in items)
ItemsTotal(items) == QSum([k \in 1..Len(items) |-> items[k][2]])

(***************************************************************************)
(* Cash-flow statement, retail                                             *)
(***************************************************************************)
\* one cash-flow record from the year's items
RetailCashFlowRecord(y, net_income, da, change_ar, change_ap, change_inventory, capex, outflow, inflow, loan_received, loan_repayment, opening_cash) ==
    LET operating_items == << <<"Net Income", net_income>>,
                              <<"+ Depreciation", da>>,
                              <<"Change in Accounts Receivable", QNeg(change_ar)>>,
                              <<"Change in Accounts Payable", change_ap>>,
                              <<"Change in Inventory", QNeg(change_inventory)>> >>
        investing_items ==
            << <<"Purchase of Equipment (CapEx)", QNeg(capex)>> >>
            \o (IF outflow # R(0) THEN << <<"Investments Made", QNeg(outflow)>> >>
                ELSE <<>>)
            \o (IF inflow # R(0) THEN << <<"Investment Maturities/Returns", inflow>> >>
                ELSE <<>>)
        financing_items == << <<"Loan Received", loan_received>>,
                              <<"Loan Repayment", loan_repayment>> >>
        net_operating == ItemsTotal(operating_items)
        net_investing == ItemsTotal(investing_items)
        net_financing == ItemsTotal(financing_items)
        net_change_in_cash == QAdd(QAdd(net_operating, net_investing), net_financing)
    IN  [year |-> y,
         operating_activities |-> operating_items,
         net_cash_from_operating_activities |-> net_operating,
         investing_activities |-> investing_items,
         net_cash_from_investing_activities |-> net_investing,
         financing_activities |-> financing_items,
         net_cash_from_financing_activities |-> net_financing,
         net_change_in_cash |-> net_change_in_cash,
         opening_cash_balance |-> opening_cash,
         closing_cash_balance |-> QAdd(opening_cash, net_change_in_cash)]

\* the body of the loop for year index i
RetailCashFlowYear(data, income_statement, i, prev_ar, prev_ap, prev_inventory, opening_cash) ==
    RetailCashFlowRecord(YearLabel(data, i),
        income_statement[i + 1].net_income,
        income_statement[i + 1].depreciation_amortization,
        QSub(AccountsReceivable(data, i), prev_ar),
        QSub(AccountsPayable(data, i), prev_ap),
        QSub(Inventory(data, i), prev_inventory),
        Capex(data, i),
        InvestmentOutflows(data, YearLabel(data, i)),
        InvestmentInflows(data, YearLabel(data, i)),
        LoanProceeds(data, i),
        QNeg(ScheduledPrincipal(data, i)),
        opening_cash)

\* a cash-flow loop that forgets `opening_cash = closing_cash`
RECURSIVE RetailCashFlowLoop_OpeningNotCarried(_, _, _, _, _, _, _)
RetailCashFlowLoop_OpeningNotCarried(data, income_statement, i, prev_ar, prev_ap, prev_inventory, opening_cash) ==
    IF i >= ForecastYears(data) THEN <<>>
    ELSE <<RetailCashFlowYear(data, income_statement, i, prev_ar, prev_ap,
                              prev_inventory, opening_cash)>>
         \o RetailCashFlowLoop_OpeningNotCarried(data, income_statement, i + 1,
                AccountsReceivable(data, i), AccountsPayable(data, i),
                Inventory(data, i), opening_cash)

\* the loop over the forecast years, from year index i on; the end of the
\* iteration stores the row and carries its closing cash into the next year
RECURSIVE RetailCashFlowLoop(_, _, _, _, _, _, _)
RECURSIVE RetailCashFlowAppend(_, _, _, _)
RetailCashFlowAppend(data, income_statement, i, row) ==
    <<row>> \o RetailCashFlowLoop(data, income_statement, i + 1,
                    AccountsReceivable(data, i), AccountsPayable(data, i),
                    Inventory(data, i), row.closing_cash_balance)

RetailCashFlowLoop(data, income_statement, i, prev_ar, prev_ap, prev_inventory, opening_cash) ==
    IF i >= ForecastYears(data) THEN <<>>
    ELSE RetailCashFlowAppend(data, income_statement, i,
            RetailCashFlowYear(data, income_statement, i, prev_ar, prev_ap,
                               prev_inventory, opening_cash))

RetailCashFlow(data, income_statement) ==
    RetailCashFlowLoop(data, income_statement, 0, R(0), R(0), R(0), InitialCash(data))

(***************************************************************************)
(* Cash-flow statement, service and SaaS (no inventory, no investment      *)
(* flows; the running balance is `ending_cash`)                            *)
(***************************************************************************)
\* one cash-flow record from the year's items
ServiceCashFlowRecord(y, depreciation_label, net_income, da, change_ar, change_ap, capex, loan_received, principal, ending_cash) ==
    LET operating == QAdd(QSub(QAdd(net_income, da), change_ar), change_ap)
        investing == QNeg(capex)
        financing == QSub(loan_received, principal)
        net_cash_flow == QAdd(QAdd(operating, investing), financing)
    IN  [year |-> y,
         operating_activities |-> << <<"Net Income", net_income>>,
                                     <<depreciation_label, da>>,
                                     <<"Change in Accounts Receivable", QNeg(change_ar)>>,
                                     <<"Change in Accounts Payable", change_ap>>,
                                     <<"Change in Inventory", R(0)>> >>,
         net_cash_from_operating_activities |-> operating,
         investing_activities |-> << <<"Purchase of Equipment (CapEx)", QNeg(capex)>> >>,
         net_cash_from_investing_activities |-> investing,
         financing_activities |-> << <<"Loan Received", loan_received>>,
                                     <<"Loan Repayment", QNeg(financing)>> >>,
         net_cash_from_financing_activities |-> financing,
         net_change_in_cash |-> net_cash_flow,
         ending_cash |-> QAdd(ending_cash, net_cash_flow),
         change_ar |-> change_ar,
         change_ap |-> change_ap]

\* the body of the loop for year index i
ServiceCashFlowYear(data, income_statement, i, prev_ar, prev_ap, ending_cash) ==
    ServiceCashFlowRecord(YearLabel(data, i),
        IF data.sector = "saas" THEN "Depreciation" ELSE "+ Depreciation",
        income_statement[i + 1].net_income,
        income_statement[i + 1].depreciation_amortization,
        QSub(AccountsReceivable(data, i), prev_ar),
        QSub(AccountsPayable(data, i), prev_ap),
        Capex(data, i),
        LoanProceeds(data, i),
        ScheduledPrincipal(data, i),
        ending_cash)

\* the loop over the forecast years; the end of the iteration stores the row
\* and carries its ending cash into the next year
RECURSIVE ServiceCashFlowLoop(_, _, _, _, _, _)
RECURSIVE ServiceCashFlowAppend(_, _, _, _)
ServiceCashFlowAppend(data, income_statement, i, row) ==
    <<row>> \o ServiceCashFlowLoop(data, income_statement, i + 1,
                    AccountsReceivable(data, i), AccountsPayable(data, i),
                    row.ending_cash)

ServiceCashFlowLoop(data, income_statement, i, prev_ar, prev_ap, ending_cash) ==
    IF i >= ForecastYears(data) THEN <<>>
    ELSE ServiceCashFlowAppend(data, income_statement, i,
            ServiceCashFlowYear(data, income_statement, i, prev_ar, prev_ap, ending_cash))

ServiceCashFlow(data, income_statement) ==
    ServiceCashFlowLoop(data, income_statement, 0, R(0), R(0), InitialCash(data))

(***************************************************************************)
(* Balance sheet                                                           *)
(***************************************************************************)
\* investment_made_by_year[j] - investment_returned_by_year[j], j below `horizon`
NetInvestmentMade(data, j) ==
    QSum([k \in 1..Len(data.investments) |->
            LET inv == data.investments[k]
                made_idx == InvDate(data, inv) - BaseYear(data)
                matured_idx == MaturityYear(data, inv) - BaseYear(data)
            IN  QSub(IF made_idx = j THEN inv.amount ELSE R(0),
                     IF matured_idx = j THEN inv.amount ELSE R(0))])

\* outstanding_investments[i]: the running balance through year index i
OutstandingInvestments(data, i) ==
    QSum([j \in 1..(i + 1) |-> NetInvestmentMade(data, j - 1)])

\* one retail balance-sheet record from the year's balances
RetailBalanceSheetRecord(year, cash, ar, inventory, ppe, investments, ap, short_term, long_term, share_capital, retained_earnings) ==
    [year |-> year,
     assets |-> [cash |-> cash, accounts_receivable |-> ar,
                 inventory |-> inventory, ppe |-> ppe,
                 investments |-> investments,
                 total_assets |->
                    QAdd(QAdd(QAdd(QAdd(cash, ar), inventory), ppe), investments)],
     liabilities |-> [accounts_payable |-> ap, short_term_debt |-> short_term,
                      long_term_debt |-> long_term,
                      total_liabilities |-> QAdd(QAdd(ap, short_term), long_term)],
     equity |-> [share_capital |-> share_capital,
                 retained_earnings |-> retained_earnings,
                 total_equity |-> QAdd(share_capital, retained_earnings)]]

\* the retail balance sheet of year index i
RetailBalanceSheetYear(data, income_statement, cash_flow, totals, i, prior_retained_earnings) ==
    RetailBalanceSheetRecord(YearLabel(data, i),
        IF i < Len(cash_flow) THEN cash_flow[i + 1].closing_cash_balance
        ELSE InitialCash(data),
        AccountsReceivable(data, i),
        Inventory(data, i),
        Capex(data, 0),
        OutstandingInvestments(data, i),
        AccountsPayable(data, i),
        totals.short_term_debt_by_year[i + 1],
        totals.long_term_debt_by_year[i + 1],
        data.selfFunding,
        QAdd(prior_retained_earnings, income_statement[i + 1].net_income))

\* owner_drawings of the SaaS builder: a list padded with 0 and cut to the
\* balance-sheet length, or one amount repeated; none in the other sectors
OwnerDrawings(data, i) ==
    IF data.sector # "saas" THEN R(0)
    ELSE IF data.ownerDrawings.isList
         THEN IF i < Len(data.ownerDrawings.values)
              THEN data.ownerDrawings.values[i + 1] ELSE R(0)
         ELSE data.ownerDrawings.value

\* one service / SaaS balance-sheet record from the year's balances
ServiceBalanceSheetRecord(year, cash, ppe, investments, long_term_debt, share_capital, retained_earnings) ==
    [year |-> year,
     assets |-> [cash |-> cash, ppe |-> ppe, investments |-> investments,
                 total_assets |-> QAdd(QAdd(cash, ppe), investments)],
     liabilities |-> [long_term_debt |-> long_term_debt,
                      total_liabilities |-> long_term_debt],
     equity |-> [share_capital |-> share_capital,
                 retained_earnings |-> retained_earnings,
                 total_equity |-> QAdd(share_capital, retained_earnings)]]

\* the service / SaaS balance sheet of year index i
ServiceBalanceSheetYear(data, income_statement, cash_flow, i, prior_retained_earnings) ==
    ServiceBalanceSheetRecord(YearLabel(data, i),
        cash_flow[i + 1].ending_cash,
        Capex(data, 0),
        OutstandingInvestments(data, i),
        BaseLoans(data),
        data.selfFunding,
        QSub(QAdd(prior_retained_earnings, income_statement[i + 1].net_income),
             OwnerDrawings(data, i)))

\* one balance-sheet record of the sector
BalanceSheetYear(data, income_statement, cash_flow, totals, i, prior_retained_earnings) ==
    IF data.sector = "retail"
    THEN RetailBalanceSheetYear(data, income_statement, cash_flow, totals, i,
                                prior_retained_earnings)
    ELSE ServiceBalanceSheetYear(data, income_statement, cash_flow, i,
                                 prior_retained_earnings)

\* the number of balance-sheet years: total_years (retail), forecast_years
\* (service; SaaS: min_len_bs, the length of the cash flow)
BalanceSheetYears(data) ==
    IF data.sector = "retail" THEN TotalYears(data) ELSE ForecastYears(data)

\* a balance-sheet loop that forgets `prior_retained_earnings = retained_earnings`
RECURSIVE BalanceSheetLoop_PriorNotCarried(_, _, _, _, _, _)
BalanceSheetLoop_PriorNotCarried(data, income_statement, cash_flow, totals, i, prior_retained_earnings) ==
    IF i >= BalanceSheetYears(data) THEN <<>>
    ELSE <<BalanceSheetYear(data, income_statement, cash_flow, totals, i,
                            prior_retained_earnings)>>
         \o BalanceSheetLoop_PriorNotCarried(data, income_statement, cash_flow,
                                             totals, i + 1, prior_retained_earnings)

\* the loop over the balance-sheet years; the end of the iteration stores the
\* record and carries its retained earnings into the next year
RECURSIVE BalanceSheetLoop(_, _, _, _, _, _)
RECURSIVE BalanceSheetAppend(_, _, _, _, _, _)
BalanceSheetAppend(data, income_statement, cash_flow, totals, i, rec) ==
    <<rec>> \o BalanceSheetLoop(data, income_statement, cash_flow, totals, i + 1,
                                rec.equity.retained_earnings)

BalanceSheetLoop(data, income_statement, cash_flow, totals, i, prior_retained_earnings) ==
    IF i >= BalanceSheetYears(data) THEN <<>>
    ELSE BalanceSheetAppend(data, income_statement, cash_flow, totals, i,
            BalanceSheetYear(data, income_statement, cash_flow, totals, i,
                             prior_retained_earnings))

BalanceSheet(data, income_statement, cash_flow, totals) ==
    BalanceSheetLoop(data, income_statement, cash_flow, totals, 0, R(0))

(***************************************************************************)
(* Forecast table and the entry point                                      *)
(***************************************************************************)
Forecast(data, income_statement, cash_flow) ==
    [k \in 1..ForecastYears(data) |->
        [year |-> YearLabel(data, k - 1),
         revenue |-> Revenue(data, k - 1),
         net_income |-> income_statement[k].net_income,
         free_cash_flow |-> cash_flow[k].net_change_in_cash]]

\* the statements of one sector (KPIs, projections and chart breakdowns, which
\* are derived from these and feed nothing back, are left out; the flattened
\* amortization table is built by the code but is not part of what it returns;
\* the line labels are kept without their leading bullet characters)
StatementsRecord(data, income_statement, cash_flow) ==
    [raised |-> "none",
     income_statement |-> income_statement,
     balance_sheet |-> BalanceSheet(data, income_statement, cash_flow, LoanTotals(data)),
     cash_flow |-> cash_flow,
     forecast |-> Forecast(data, income_statement, cash_flow)]

\* the cash flow follows from the finished income statement
StatementsFromIncome(data, income_statement) ==
    StatementsRecord(data, income_statement,
        IF data.sector = "retail" THEN RetailCashFlow(data, income_statement)
        ELSE ServiceCashFlow(data, income_statement))

BuildStatements(data) == StatementsFromIncome(data, IncomeStatement(data))

calculate_retail_statements(data) == BuildStatements([data EXCEPT !.sector = "retail"])

calculate_service_statements(data) == BuildStatements([data EXCEPT !.sector = "service"])

\* SaaS: no plan list, or no valid plan, raises ValueError
calculate_saas_statements(data) ==
    IF data.items = <<>> \/ SelectSeq(data.items, ValidPlan) = <<>>
    THEN [raised |-> "ValueError"]
    ELSE BuildStatements([data EXCEPT !.sector = "saas"])

calculate_statements(company_type, data) ==
    CASE company_type = "retail" -> calculate_retail_statements(data)
      [] company_type = "service" -> calculate_service_statements(data)
      [] company_type = "saas" -> calculate_saas_statements(data)
      [] OTHER -> [raised |-> "ValueError"]

(***************************************************************************)
(* Valuation (dcf_calculation.py).  A Python None is NoValue, a number     *)
(* next to it is Some(number); an exception is [raised |-> its name].      *)
(***************************************************************************)
NoValue == [none |-> TRUE]

Some(value) == [none |-> FALSE, value |-> value]

\* a terminal value whose perpetuity guard is `> 0` instead of `> 0.001`
calculate_terminal_value_GuardAtZero(method, last_fcf, discount_rate, terminal_growth, tv_metric_value, tv_multiple, tv_custom_value) ==
    IF method = "perpetuity"
    THEN IF QLt(R(0), QSub(discount_rate, terminal_growth))
         THEN QDiv(QMul(last_fcf, QAdd(R(1), terminal_growth)),
                   QSub(discount_rate, terminal_growth))
         ELSE R(0)
    ELSE IF method = "exit-multiple" THEN QMul(tv_metric_value, tv_multiple)
    ELSE IF method = "liquidation" THEN tv_custom_value
    ELSE R(0)

calculate_terminal_value(method, last_fcf, discount_rate, terminal_growth, tv_metric_value, tv_multiple, tv_custom_value) ==
    IF method = "perpetuity"
    THEN IF QLt(<<1, 1000>>, QSub(discount_rate, terminal_growth))
         THEN QDiv(QMul(last_fcf, QAdd(R(1), terminal_growth)),
                   QSub(discount_rate, terminal_growth))
         ELSE R(0)
    ELSE IF method = "exit-multiple" THEN QMul(tv_metric_value, tv_multiple)
    ELSE IF method = "liquidation" THEN tv_custom_value
    ELSE R(0)

\* terminal_value_func of the calculate endpoint: perpetuity, the same guard
terminal_value_func(last_fcf, g, wacc) ==
    IF QLe(QSub(wacc, g), <<1, 1000>>) THEN R(0)
    ELSE QDiv(QMul(last_fcf, QAdd(R(1), g)), QSub(wacc, g))

\* sum of flows[k] / (1 + rate) ** (k - 1 + first), as enumerate(flows, first)
DiscountedSum(flows, rate, first) == QSum([k \in 1..Len(flows) |-> QDiv(flows[k], QPow(QAdd(R(1), rate), k - 1 + first))])

\* a DCF value whose flows are discounted from year 0
calculate_dcf_value_FromYearZero(free_cash_flows, discount_rate, terminal_value, terminal_year) ==
    IF terminal_value.none THEN DiscountedSum(free_cash_flows, discount_rate, 0)
    ELSE QAdd(DiscountedSum(free_cash_flows, discount_rate, 0),
              QDiv(terminal_value.value,
                   QPow(QAdd(R(1), discount_rate),
                        IF terminal_year.none THEN Len(free_cash_flows) ELSE terminal_year.value)))

\* the discount rate is above -1 in every call, so no power of 1 + rate is 0
calculate_dcf_value(free_cash_flows, discount_rate, terminal_value, terminal_year) ==
    IF terminal_value.none THEN DiscountedSum(free_cash_flows, discount_rate, 1)
    ELSE QAdd(DiscountedSum(free_cash_flows, discount_rate, 1),
              QDiv(terminal_value.value,
                   QPow(QAdd(R(1), discount_rate),
                        IF terminal_year.none THEN Len(free_cash_flows) ELSE terminal_year.value)))

\* a payback counted in periods elapsed before flow i: (i - 1) - prev / cf
PaybackAt_PeriodsElapsed(i, prev_cumulative, cf) == IF cf # R(0) THEN Some(QSub(R(i - 1), QDiv(prev_cumulative, cf))) ELSE Some(R(i))

\* a payback without the interpolation: the position of the crossing flow
PaybackAt_WholePeriod(i, prev_cumulative, cf) == Some(R(i))

\* the value returned at the crossing; i is the 0-based position of the flow
PaybackAt(i, prev_cumulative, cf) == IF cf # R(0) THEN Some(QSub(R(i), QDiv(prev_cumulative, cf))) ELSE Some(R(i))

\* the loop of calculate_payback_period from position i on
RECURSIVE PaybackLoop(_, _, _)
PaybackLoop(cash_flows, i, cumulative) ==
    IF i >= Len(cash_flows) THEN NoValue
    ELSE IF QLt(cumulative, R(0)) /\ QLe(R(0), QAdd(cumulative, cash_flows[i + 1]))
         THEN PaybackAt(i, cumulative, cash_flows[i + 1])
         ELSE PaybackLoop(cash_flows, i + 1, QAdd(cumulative, cash_flows[i + 1]))

calculate_payback_period(cash_flows) == PaybackLoop(cash_flows, 0, R(0))

\* the discount rate is above -1 in every call, so no power of 1 + rate is 0
calculate_npv(cash_flows, discount_rate) == DiscountedSum(cash_flows, discount_rate, 0)

\* d_npv of calculate_irr: sum of -t * cf / (1 + rate) ** (t + 1), t from 0
NpvDerivative(cash_flows, rate) == QSum([k \in 1..Len(cash_flows) |-> QDiv(QMul(R(-(k - 1)), cash_flows[k]), QPow(QAdd(R(1), rate), k))])

\* one pass of the loop body, given npv and d_npv: return, break or step on
RECURSIVE IrrLoop(_, _, _, _)
IrrStep(cash_flows, rate, left, tol, npv, d_npv) ==
    IF QLt(npv, tol) /\ QLt(QNeg(npv), tol) THEN [raised |-> "none", value |-> rate]
    ELSE IF d_npv = R(0) THEN [raised |-> "none", value |-> rate]
    ELSE IrrLoop(cash_flows, QSub(rate, QDiv(npv, d_npv)), left - 1, tol)

\* the Newton loop with `left` iterations to go; at rate -1 the powers of
\* 1 + rate are 0 and the first division of a flow raises
IrrLoop(cash_flows, rate, left, tol) ==
    IF left = 0 THEN [raised |-> "none", value |-> rate]
    ELSE IF rate = R(-1) /\ cash_flows # <<>> THEN [raised |-> "ZeroDivisionError"]
    ELSE IrrStep(cash_flows, rate, left, tol, DiscountedSum(cash_flows, rate, 0),
                 NpvDerivative(cash_flows, rate))

calculate_irr(cash_flows, guess, max_iter, tol) == IrrLoop(cash_flows, guess, max_iter, tol)

\* the default bin edges of the Monte Carlo histogram, from -inf to +inf
Finite(value) == [kind |-> "number", value |-> value]

bins == <<[kind |-> "-inf"], Finite(R(0)), Finite(R(100000)), Finite(R(200000)), Finite(R(300000)), Finite(R(400000)), Finite(R(500000)), [kind |-> "inf"]>>

bin_labels == <<"<0", "0-100k", "100k-200k", "200k-300k", "300k-400k", "400k-500k", ">500k">>

\* lo <= npv and npv < hi for two bin edges
EdgeLe(lo, npv) == IF lo.kind = "-inf" THEN TRUE ELSE IF lo.kind = "inf" THEN FALSE ELSE QLe(lo.value, npv)

EdgeGt(hi, npv) == IF hi.kind = "inf" THEN TRUE ELSE IF hi.kind = "-inf" THEN FALSE ELSE QLt(npv, hi.value)

\* a bin that excludes its lower edge
InBin_OpenBelow(npv, i) == EdgeLe(bins[i], npv) /\ Finite(npv) # bins[i] /\ EdgeGt(bins[i + 1], npv)

\* bins[i] <= npv < bins[i+1], i counted from 1
InBin(npv, i) == EdgeLe(bins[i], npv) /\ EdgeGt(bins[i + 1], npv)

\* the first bin that holds npv, 0 when none does
BinOf(npv) == IF \E i \in 1..(Len(bins) - 1) : InBin(npv, i) THEN CHOOSE i \in 1..(Len(bins) - 1) : InBin(npv, i) /\ \A j \in 1..(i - 1) : ~InBin(npv, j) ELSE 0

\* the NPV of one trial with the drawn discount rate dr and growth tg
TrialNpv(free_cash_flows, dr, tg) == calculate_npv(Append(free_cash_flows, calculate_terminal_value("perpetuity", free_cash_flows[Len(free_cash_flows)], dr, tg, R(0), R(0), R(0))), dr)

Histogram(npv_results) == [i \in 1..Len(bin_labels) |-> [bin |-> bin_labels[i], count |-> Cardinality({k \in 1..Len(npv_results) : BinOf(npv_results[k]) = i})]]

\* draws[k] is the pair (dr, tg) that random.uniform returns in trial k; a
\* trial indexes the last flow, and at dr = -1 divides a flow by 0 ** t
monte_carlo_npv_simulation(free_cash_flows, draws) ==
    IF draws # <<>> /\ free_cash_flows = <<>> THEN [raised |-> "IndexError"]
    ELSE IF \E k \in 1..Len(draws) : draws[k][1] = R(-1) THEN [raised |-> "ZeroDivisionError"]
    ELSE [raised |-> "none", histogram |-> Histogram([k \in 1..Len(draws) |-> TrialNpv(free_cash_flows, draws[k][1], draws[k][2])])]

\* free_cash_flows[-1] if free_cash_flows else 0
LastFcfOrZero(free_cash_flows) == IF free_cash_flows = <<>> THEN R(0) ELSE free_cash_flows[Len(free_cash_flows)]

\* a cell whose terminal value is asked for with wacc and growth exchanged
SensitivityCell_RatesExchanged(free_cash_flows, wacc, growth) == [growth |-> growth, dcf |-> calculate_dcf_value(free_cash_flows, wacc, Some(terminal_value_func(LastFcfOrZero(free_cash_flows), wacc, growth)), NoValue)]

\* one cell of the matrix; terminal_value_func is the function the calculate
\* endpoint passes
SensitivityCell(free_cash_flows, wacc, growth) == [growth |-> growth, dcf |-> calculate_dcf_value(free_cash_flows, wacc, Some(terminal_value_func(LastFcfOrZero(free_cash_flows), growth, wacc)), NoValue)]

calculate_sensitivity_matrix(free_cash_flows, wacc_range, terminal_growth_range) ==
    [i \in 1..Len(wacc_range) |->
        [wacc |-> wacc_range[i],
         values |-> [j \in 1..Len(terminal_growth_range) |->
                        SensitivityCell(free_cash_flows, wacc_range[i], terminal_growth_range[j])]]]

\* the DCF of the flows with the terminal value of (last_fcf, growth, rate)
DcfWith(flows, last_fcf, growth, rate) == calculate_dcf_value(flows, rate, Some(terminal_value_func(last_fcf, growth, rate)), NoValue)

\* [fcf * factor for fcf in free_cash_flows]
ScaledFlows(free_cash_flows, factor) == [k \in 1..Len(free_cash_flows) |-> QMul(free_cash_flows[k], factor)]

\* the DCF of the flows scaled by factor; flows[-1] needs a flow
FlexedFlowsDcf(free_cash_flows, factor, growth, rate) == DcfWith(ScaledFlows(free_cash_flows, factor), QMul(free_cash_flows[Len(free_cash_flows)], factor), growth, rate)

\* a 'wacc' entry that discounts at the flexed rate but keeps the terminal
\* value of the base rate
TornadoEntry_TerminalAtBaseRate(free_cash_flows, rate, growth, impact, base_dcf) == IF impact.type = "wacc" THEN [variable |-> impact.variable, base |-> base_dcf, low |-> calculate_dcf_value(free_cash_flows, impact.low, Some(terminal_value_func(LastFcfOrZero(free_cash_flows), growth, rate)), NoValue), high |-> calculate_dcf_value(free_cash_flows, impact.high, Some(terminal_value_func(LastFcfOrZero(free_cash_flows), growth, rate)), NoValue)] ELSE IF impact.type = "fcf" THEN [variable |-> impact.variable, base |-> base_dcf, low |-> FlexedFlowsDcf(free_cash_flows, impact.low, growth, rate), high |-> FlexedFlowsDcf(free_cash_flows, impact.high, growth, rate)] ELSE IF impact.type = "growth" THEN [variable |-> impact.variable, base |-> base_dcf, low |-> DcfWith(free_cash_flows, LastFcfOrZero(free_cash_flows), impact.low, rate), high |-> DcfWith(free_cash_flows, LastFcfOrZero(free_cash_flows), impact.high, rate)] ELSE [variable |-> impact.variable, base |-> base_dcf, low |-> base_dcf, high |-> base_dcf]

\* the entry of one variable, by the type of its impact
TornadoEntry(free_cash_flows, rate, growth, impact, base_dcf) ==
    IF impact.type = "fcf"
    THEN [variable |-> impact.variable, base |-> base_dcf,
          low |-> FlexedFlowsDcf(free_cash_flows, impact.low, growth, rate),
          high |-> FlexedFlowsDcf(free_cash_flows, impact.high, growth, rate)]
    ELSE IF impact.type = "wacc"
    THEN [variable |-> impact.variable, base |-> base_dcf,
          low |-> DcfWith(free_cash_flows, LastFcfOrZero(free_cash_flows), growth, impact.low),
          high |-> DcfWith(free_cash_flows, LastFcfOrZero(free_cash_flows), growth, impact.high)]
    ELSE IF impact.type = "growth"
    THEN [variable |-> impact.variable, base |-> base_dcf,
          low |-> DcfWith(free_cash_flows, LastFcfOrZero(free_cash_flows), impact.low, rate),
          high |-> DcfWith(free_cash_flows, LastFcfOrZero(free_cash_flows), impact.high, rate)]
    ELSE [variable |-> impact.variable, base |-> base_dcf, low |-> base_dcf, high |-> base_dcf]

\* variable_impacts is the sequence of the dict's items, each with its name;
\* an impact of type 'fcf' indexes the last of the scaled flows
calculate_tornado_data(free_cash_flows, base_discount_rate, base_terminal_growth, variable_impacts) ==
    IF free_cash_flows = <<>> /\ \E k \in 1..Len(variable_impacts) : variable_impacts[k].type = "fcf"
    THEN [raised |-> "IndexError"]
    ELSE [raised |-> "none",
          tornado |-> [k \in 1..Len(variable_impacts) |->
              TornadoEntry(free_cash_flows, base_discount_rate, base_terminal_growth,
                  variable_impacts[k],
                  DcfWith(free_cash_flows, LastFcfOrZero(free_cash_flows),
                          base_terminal_growth, base_discount_rate))]]

(***************************************************************************)
(* Scenarios: a forecast year and a scenario are dicts, functions from     *)
(* their keys.  Every forecast year has a revenue.                         *)
(***************************************************************************)
\* d.get(key, default)
Get(d, key, default) == IF key \in DOMAIN d THEN d[key] ELSE default

\* d[key] = value
Put(d, key, value) == [k \in (DOMAIN d) \cup {key} |-> IF k = key THEN value ELSE d[k]]

\* scenario_values.get(key, 0) / 100
Percent(scenario_values, key) == QDiv(Get(scenario_values, key, R(0)), R(100))

\* a revenue that grows the year's own base revenue instead of the previous
\* adjusted revenue
WithRevenue_GrowsBaseYear(year, adjusted_forecast, scenario_values) == IF adjusted_forecast = <<>> THEN year ELSE Put(year, "revenue", QMul(year["revenue"], QAdd(R(1), Percent(scenario_values, "revenueGrowth"))))

\* from the second year on the revenue is the previous adjusted revenue, grown
WithRevenue(year, adjusted_forecast, scenario_values) ==
    IF adjusted_forecast = <<>> THEN year
    ELSE Put(year, "revenue", QMul(adjusted_forecast[Len(adjusted_forecast)]["revenue"], QAdd(R(1), Percent(scenario_values, "revenueGrowth"))))

WithEbit(year) == Put(year, "ebit", QSub(QSub(year["revenue"], Get(year, "cogs", R(0))), year["operating_expenses"]))

WithOperatingMargin(year, scenario_values) ==
    IF QLt(R(0), year["revenue"])
    THEN WithEbit(Put(year, "operating_expenses", QMax(R(0), QMul(Get(year, "operating_expenses", R(0)), QSub(R(1), Percent(scenario_values, "operatingMargin"))))))
    ELSE year

WithCapex(year, scenario_values) == Put(year, "capex", QMul(Get(year, "capex", R(0)), QAdd(R(1), Percent(scenario_values, "capex"))))

\* year[key] scaled by the working capital adjustment, when the key is there
Scaled(year, key, scenario_values) == IF key \in DOMAIN year THEN Put(year, key, QMul(year[key], QAdd(R(1), Percent(scenario_values, "workingCapitalDays")))) ELSE year

WithWorkingCapital(year, scenario_values) == Scaled(Scaled(year, "inventory", scenario_values), "accounts_receivable", scenario_values)

WithTaxRate(year, scenario_values) == Put(year, "tax_rate", QMax(R(0), QMin(R(1), QAdd(Get(year, "tax_rate", <<1, 4>>), Percent(scenario_values, "taxRate")))))

WithEbt(year) == Put(year, "ebt", QSub(QAdd(Get(year, "ebit", R(0)), Get(year, "other_income", R(0))), Get(year, "interest_expense", R(0))))

WithTaxExpense(year) == Put(year, "tax_expense", QMul(year["ebt"], year["tax_rate"]))

WithNetIncome(year) == Put(year, "net_income", QSub(year["ebt"], year["tax_expense"]))

WithFreeCashFlow(year) == Put(year, "free_cash_flow", QSub(QSub(QAdd(year["net_income"], Get(year, "depreciation", R(0))), year["capex"]), Get(year, "change_in_working_capital", R(0))))

\* the body of the loop for one year of the base forecast
AdjustedYear(year_data, adjusted_forecast, scenario_values) ==
    WithFreeCashFlow(WithNetIncome(WithTaxExpense(WithEbt(
        WithTaxRate(WithWorkingCapital(WithCapex(WithOperatingMargin(
            WithRevenue(year_data, adjusted_forecast, scenario_values),
            scenario_values), scenario_values), scenario_values), scenario_values)))))

RECURSIVE ScenarioLoop(_, _, _)
ScenarioLoop(base_forecast, scenario_values, adjusted_forecast) ==
    IF Len(adjusted_forecast) = Len(base_forecast) THEN adjusted_forecast
    ELSE ScenarioLoop(base_forecast, scenario_values,
             Append(adjusted_forecast,
                    AdjustedYear(base_forecast[Len(adjusted_forecast) + 1],
                                 adjusted_forecast, scenario_values)))

apply_scenario_to_forecast(base_forecast, scenario_values) == IF base_forecast = <<>> THEN <<>> ELSE ScenarioLoop(base_forecast, scenario_values, <<>>)

\* a loop that writes to the year of the input itself, not to a copy
YearDataAfter_WrittenInPlace(year_data, adjusted_year) == adjusted_year

\* adjusted_year = year_data.copy(): every write of the loop goes to the copy,
\* so the year of the input keeps its keys and values
YearDataAfter(year_data, adjusted_year) == year_data

\* the caller's base_forecast as the call leaves it
BaseForecastAfter(base_forecast, scenario_values) == [i \in 1..Len(base_forecast) |-> YearDataAfter(base_forecast[i], apply_scenario_to_forecast(base_forecast, scenario_values)[i])]

\* the cash flows whose IRR the KPIs report: a positive first flow is negated
IrrFlows(free_cash_flows) ==
    IF free_cash_flows # <<>> /\ QLt(R(0), free_cash_flows[1])
    THEN <<QNeg(free_cash_flows[1])>> \o SubSeq(free_cash_flows, 2, Len(free_cash_flows))
    ELSE free_cash_flows

\* irr: None when calculate_irr raised
IrrOrNone(result) == IF result.raised = "none" THEN Some(result.value) ELSE NoValue

\* year_1_gross_margin and year_1_net_margin: key / revenue * 100, or 0
YearOneMargin(adjusted_forecast, key) ==
    IF adjusted_forecast # <<>> /\ QLt(R(0), Get(adjusted_forecast[1], "revenue", R(0)))
    THEN QMul(QDiv(Get(adjusted_forecast[1], key, R(0)), Get(adjusted_forecast[1], "revenue", R(0))), R(100))
    ELSE R(0)

\* the KPIs of an adjusted forecast and its free cash flows
ScenarioKpis(adjusted_forecast, free_cash_flows, adjusted_discount_rate) ==
    [npv |-> calculate_npv(free_cash_flows, adjusted_discount_rate),
     irr |-> IrrOrNone(calculate_irr(IrrFlows(free_cash_flows), <<1, 10>>, 100, <<1, 1000000>>)),
     payback_period |-> calculate_payback_period(free_cash_flows),
     cumulative_fcf |-> QSum(free_cash_flows),
     year_1_revenue |-> IF adjusted_forecast # <<>> THEN Get(adjusted_forecast[1], "revenue", R(0)) ELSE R(0),
     year_5_revenue |-> IF Len(adjusted_forecast) >= 5 THEN Get(adjusted_forecast[Len(adjusted_forecast)], "revenue", R(0)) ELSE R(0),
     year_1_gross_margin |-> YearOneMargin(adjusted_forecast, "gross_profit"),
     year_1_net_margin |-> YearOneMargin(adjusted_forecast, "net_income"),
     free_cash_flows |-> free_cash_flows,
     adjusted_forecast |-> adjusted_forecast]

FreeCashFlowsOf(forecast) == [k \in 1..Len(forecast) |-> Get(forecast[k], "free_cash_flow", R(0))]

KpisOfAdjusted(adjusted_forecast, adjusted_discount_rate) == ScenarioKpis(adjusted_forecast, FreeCashFlowsOf(adjusted_forecast), adjusted_discount_rate)

\* KPIs whose NPV includes the terminal value as one more flow
calculate_scenario_kpis_NpvWithTerminal(base_forecast, scenario_values, base_discount_rate, base_terminal_growth) == [KpisOfAdjusted(apply_scenario_to_forecast(base_forecast, scenario_values), QMul(base_discount_rate, QAdd(R(1), Percent(scenario_values, "wacc")))) EXCEPT !.npv = calculate_npv(FreeCashFlowsOf(apply_scenario_to_forecast(base_forecast, scenario_values)) \o <<terminal_value_func(LastFcfOrZero(FreeCashFlowsOf(apply_scenario_to_forecast(base_forecast, scenario_values))), QAdd(base_terminal_growth, Percent(scenario_values, "terminalGrowth")), QMul(base_discount_rate, QAdd(R(1), Percent(scenario_values, "wacc"))))>>, QMul(base_discount_rate, QAdd(R(1), Percent(scenario_values, "wacc"))))]

\* the terminal value the function computes is not part of what it returns
calculate_scenario_kpis(base_forecast, scenario_values, base_discount_rate, base_terminal_growth) ==
    KpisOfAdjusted(apply_scenario_to_forecast(base_forecast, scenario_values),
                   QMul(base_discount_rate, QAdd(R(1), Percent(scenario_values, "wacc"))))

\* the base case of the comparison: every delta 0
base_values == [revenueGrowth |-> R(0), operatingMargin |-> R(0), capex |-> R(0), workingCapitalDays |-> R(0), taxRate |-> R(0), wacc |-> R(0), terminalGrowth |-> R(0)]

\* the KPIs of a scenario at the default rates, 0.1 and 0.02
DefaultKpis(base_forecast, scenario_values) == calculate_scenario_kpis(base_forecast, scenario_values, <<1, 10>>, <<1, 50>>)

\* base_forecast as the base case, and then the best case, leave it
AfterBase(base_forecast) == BaseForecastAfter(base_forecast, base_values)

AfterBest(base_forecast, scenario_configs) == BaseForecastAfter(AfterBase(base_forecast), Get(scenario_configs, "best", <<>>))

\* base, best and worst are computed in this order on the same list
calculate_scenario_comparison(base_forecast, scenario_configs) ==
    [base |-> DefaultKpis(base_forecast, base_values),
     best |-> DefaultKpis(AfterBase(base_forecast), Get(scenario_configs, "best", <<>>)),
     worst |-> DefaultKpis(AfterBest(base_forecast, scenario_configs),
                           Get(scenario_configs, "worst", <<>>))]

(***************************************************************************)
(* calculate_sensitivity_analysis: sensitivity_ranges is a dict, here the  *)
(* sequence of its items in insertion order.                               *)
(***************************************************************************)
\* {variable: value}
OneKey(variable, value) == [k \in {variable} |-> value]

\* the NPV of the scenario that moves one variable to value
NpvAt(base_forecast, variable, value, base_discount_rate, base_terminal_growth) == calculate_scenario_kpis(base_forecast, OneKey(variable, value), base_discount_rate, base_terminal_growth).npv

\* ((npv - base_npv) / base_npv * 100) if base_npv != 0 else 0
ImpactPercent(npv, base_npv) ==
    IF base_npv # R(0) THEN QMul(QDiv(QSub(npv, base_npv), base_npv), R(100)) ELSE R(0)

\* the entry of one variable, from the three NPVs
TornadoRow(variable, low_npv, high_npv, base_npv) ==
    [variable |-> variable,
     low_impact |-> ImpactPercent(low_npv, base_npv),
     high_impact |-> ImpactPercent(high_npv, base_npv),
     low_npv |-> low_npv, high_npv |-> high_npv, base_npv |-> base_npv]

\* the entry of one item of sensitivity_ranges
TornadoRowOf(base_forecast, item, base_discount_rate, base_terminal_growth) ==
    TornadoRow(item.variable,
        NpvAt(base_forecast, item.variable, Get(item.range, "low", R(0)),
              base_discount_rate, base_terminal_growth),
        NpvAt(base_forecast, item.variable, Get(item.range, "high", R(0)),
              base_discount_rate, base_terminal_growth),
        calculate_scenario_kpis(base_forecast, <<>>, base_discount_rate,
                                base_terminal_growth).npv)

\* abs(x["high_impact"] - x["low_impact"])
ImpactSpread(row) ==
    IF QLt(row.high_impact, row.low_impact) THEN QSub(row.low_impact, row.high_impact)
    ELSE QSub(row.high_impact, row.low_impact)

\* row placed after the rows whose spread is at least its own
InsertByImpact(sorted, row) ==
    LET k == Cardinality({i \in 1..Len(sorted) : QLe(ImpactSpread(row), ImpactSpread(sorted[i]))})
    IN  SubSeq(sorted, 1, k) \o <<row>> \o SubSeq(sorted, k + 1, Len(sorted))

\* tornado_data.sort(key = spread, reverse = True): stable, largest first
RECURSIVE SortedByImpact(_)
SortedByImpact(rows) ==
    IF rows = <<>> THEN <<>>
    ELSE InsertByImpact(SortedByImpact(SubSeq(rows, 1, Len(rows) - 1)), rows[Len(rows)])

\* the discount rates and growth rates of the heatmap
HeatmapWaccs == <<<<7, 100>>, <<2, 25>>, <<9, 100>>, <<1, 10>>, <<11, 100>>, <<3, 25>>>>

HeatmapGrowths == <<<<1, 100>>, <<1, 50>>, <<3, 100>>, <<1, 25>>>>

\* the lambda handed to the matrix is the perpetuity value, which on these
\* ranges (wacc - g >= 0.03) is terminal_value_func
calculate_sensitivity_analysis(base_forecast, sensitivity_ranges, base_discount_rate, base_terminal_growth) ==
    [tornado_data |->
        SortedByImpact([k \in 1..Len(sensitivity_ranges) |->
            TornadoRowOf(base_forecast, sensitivity_ranges[k], base_discount_rate,
                         base_terminal_growth)]),
     sensitivity_matrix |->
        calculate_sensitivity_matrix(FreeCashFlowsOf(base_forecast), HeatmapWaccs,
                                     HeatmapGrowths)]

(***************************************************************************)
(* Inputs of the direct calls                                              *)
(***************************************************************************)
LoanAmounts == {R(0), R(60), R(120)}

\* annual rates as fractions: 0 %, 100 %, 200 %
AnnualRates == {R(0), R(1), R(2)}

PeriodsPerYear == {1, 2}

AssetCosts == {R(0), R(270), R(540)}

SalvageValues == {R(0), R(10), R(270)}

DepreciationMethods == {"straight_line", "double_declining", "sum_of_years_digits"}

(***************************************************************************)
(* Inputs of calculate_statements                                          *)
(***************************************************************************)
Sectors == {"retail", "service", "saas"}

\* one product / service / plan: 10 a unit, 1 unit a month, growing 100 % a year
LineA == [price |-> R(10), volume |-> R(1), cost |-> R(4), growth |-> R(100)]

\* a plan that fails the SaaS validation (no users)
LineInvalid == [price |-> R(10), volume |-> R(0), cost |-> R(4), growth |-> R(0)]

\* a line with a negative unit cost: not a valid SaaS plan, but it has volume
LineNegativeCost == [price |-> R(10), volume |-> R(1), cost |-> R(-4), growth |-> R(0)]

\* products / services / plans: missing or empty, one good line, one line that
\* fails the SaaS validation, a good line next to a bad one
ItemLists == {<<>>, <<LineA>>, <<LineInvalid>>, <<LineA, LineNegativeCost>>}

ExpenseList == <<[amount |-> R(2), growthRate |-> R(0)]>>

OtherList == <<[amount |-> R(5), isIncome |-> TRUE], [amount |-> R(3), isIncome |-> FALSE]>>

\* a machine bought at the current date, straight line
EquipmentA ==
    [cost |-> R(270), usefulLife |-> 3, depreciationMethod |-> "straight_line",
     salvageValue |-> R(0), purchaseDate |-> <<>>, totalUnits |-> R(0),
     unitsPerYear |-> <<>>]

\* a machine bought in July 2025, double declining over the longest life
EquipmentB ==
    [cost |-> R(270), usefulLife |-> MaxLife, depreciationMethod |-> "double_declining",
     salvageValue |-> R(10), purchaseDate |-> <<2025, 7>>, totalUnits |-> R(0),
     unitsPerYear |-> <<>>]


\* a loan of 120 at 100 % over y years, no start date
LoanA(y) == [amount |-> R(120), rate |-> R(100), years |-> y, startDate |-> <<>>]

\* a loan of 60 at 50 % over 2 years starting in June 2025
LoanB == [amount |-> R(60), rate |-> R(50), years |-> 2, startDate |-> <<2025, 6>>]

\* a loan of 60 at 100 % over 1 year that started before the base year
LoanC == [amount |-> R(60), rate |-> R(100), years |-> 1, startDate |-> <<2022, 1>>]

\* a loan of amount 0
LoanZ == [amount |-> R(0), rate |-> R(100), years |-> 2, startDate |-> <<>>]

LoanLists ==
    {<<>>, <<LoanB>>, <<LoanA(MaxTerm), LoanB>>, <<LoanC, LoanZ>>}
    \cup {<<LoanA(y)>> : y \in 1..MaxTerm}

\* 100 invested in 2024 for one year, returning 10, earning income at the global rate
InvestmentA ==
    [amount |-> R(100), date |-> <<2024>>, maturity |-> <<1>>, expectedReturn |-> R(10),
     income |-> TRUE, incomeAmount |-> R(0)]

\* 50 invested at the current date, maturing in 2026, returning 5
InvestmentB ==
    [amount |-> R(50), date |-> <<>>, maturity |-> <<2026>>, expectedReturn |-> R(5),
     income |-> FALSE, incomeAmount |-> R(0)]

\* the equipment and investment lists of an input
AssetLists ==
    {[equipment |-> <<>>, investments |-> <<>>],
     [equipment |-> <<EquipmentA>>, investments |-> <<InvestmentA>>],
     [equipment |-> <<EquipmentA, EquipmentB>>,
      investments |-> <<InvestmentA, InvestmentB>>]}

\* the remaining keys: calendar, working capital, global rates, drawings
ProfilePlain ==
    [fiscalYearStart |-> "January", currentDate |-> <<2024, 3>>,
     revenueInputType |-> "monthly",
     creditSales |-> [percent |-> R(0), collectionDays |-> R(0)],
     accountsPayable |-> [days |-> R(0)], inventoryDays |-> R(0),
     globalInterestRates |-> <<>>,
     ownerDrawings |-> [isList |-> FALSE, value |-> R(5)]]

ProfileWorkingCapital ==
    [fiscalYearStart |-> "April", currentDate |-> <<>>,
     revenueInputType |-> "annual",
     creditSales |-> [percent |-> R(50), collectionDays |-> R(73)],
     accountsPayable |-> [days |-> R(73)], inventoryDays |-> R(73),
     globalInterestRates |-> [shortTerm |-> R(100), longTerm |-> R(50),
                              investment |-> R(10), useForLoans |-> TRUE],
     ownerDrawings |-> [isList |-> TRUE, values |-> <<R(10)>>]]

Profiles == {ProfilePlain, ProfileWorkingCapital}

StatementInput(sector, forecastPeriod, items, assets, loans, profile) ==
    [sector |-> sector, forecastPeriod |-> forecastPeriod, items |-> items,
     expenses |-> ExpenseList, equipment |-> assets.equipment, loans |-> loans,
     other |-> OtherList, investments |-> assets.investments,
     selfFunding |-> R(100), taxRate |-> R(25),
     fiscalYearStart |-> profile.fiscalYearStart, currentDate |-> profile.currentDate,
     revenueInputType |-> profile.revenueInputType, creditSales |-> profile.creditSales,
     accountsPayable |-> profile.accountsPayable, inventoryDays |-> profile.inventoryDays,
     globalInterestRates |-> profile.globalInterestRates,
     ownerDrawings |-> profile.ownerDrawings]

\* the dates datetime.today() returns in the model
Clock == {<<2024, 3>>, <<2025, 3>>}

(***************************************************************************)
(* Inputs of the valuation calls                                           *)
(***************************************************************************)
TerminalMethods == {"perpetuity", "exit-multiple", "liquidation", "none", "unknown"}

LastFlows == {R(-100), R(0), R(121)}

\* discount rates: 0, 0.1 % (0.001 above a growth of 0), 2 %, 10 %; all the
\* differences of these rates and the growth rates are decided by the float
\* comparison as by the exact one
DiscountRates == {R(0), <<1, 1000>>, <<1, 50>>, <<1, 10>>}

\* terminal growth rates: 0, 2 %, 10 %
GrowthRates == {R(0), <<1, 50>>, <<1, 10>>}

\* tv_metric_value, tv_multiple and tv_custom_value: the defaults, or given
TerminalExtras ==
    {[tv_metric_value |-> R(0), tv_multiple |-> R(0), tv_custom_value |-> R(0)],
     [tv_metric_value |-> R(50), tv_multiple |-> R(8), tv_custom_value |-> R(77)]}

\* cash-flow series: empty, growing, an investment paid back, never negative,
\* never paid back, paid back twice, a single flow, all zero
FlowLists ==
    {<<>>, <<R(100), R(110), R(121)>>, <<R(-100), R(50), R(60)>>, <<R(50), R(60)>>,
     <<R(-100), R(50)>>, <<R(-100), R(100), R(-50), R(60)>>, <<R(-20), R(11)>>,
     <<R(5)>>, <<R(0), R(0)>>}

\* discount rates of the DCF calls: 0, 10 %, 25 %
DcfRates == {R(0), <<1, 10>>, <<1, 4>>}

\* terminal_value: not given, 0, or the perpetuity value of 121 at 10 % and 2 %
TerminalValues == {NoValue, Some(R(0)), Some(<<6171, 4>>)}

\* terminal_year: not given, or year 1 or 3
TerminalYears == {NoValue, Some(1), Some(3)}

\* calls of calculate_irr with the default guess and tolerance: with the
\* default cap the series whose loop ends at once or after one step, with a
\* cap of 1 or 2 a series whose loop runs to the cap
IrrCalls ==
    {[cash_flows |-> f, max_iter |-> 100] :
        f \in {<<>>, <<R(5)>>, <<R(0), R(0)>>, <<R(-10), R(11)>>, <<R(-20), R(11)>>}}
    \cup {[cash_flows |-> <<R(-1), R(2)>>, max_iter |-> m] : m \in {0, 1, 2}}

\* free cash flows of the Monte Carlo calls
MonteCarloFlows ==
    {<<>>, <<R(-100000)>>, <<R(0)>>, <<R(100000)>>, <<R(500000)>>,
     <<R(-100000), R(150000)>>}

\* discount_rate_range: 0 to 25 %, or exactly -100 %
DiscountRateRanges == {<<R(0), <<1, 4>>>>, <<R(-1), R(-1)>>}

\* terminal_growth_range: exactly 0, or 0 to 2 %
GrowthRateRanges == {<<R(0), R(0)>>, <<R(0), <<1, 50>>>>}

\* the run counts go up to MaxRuns
MaxRuns == 2

\* values random.uniform(lo, hi) can return: the ends and the middle
Uniform(range) == {range[1], QDiv(QAdd(range[1], range[2]), R(2)), range[2]}

\* range(runs) is empty for a negative run count
Trials(runs) == 1..(IF runs < 0 THEN 0 ELSE runs)

\* wacc_range and terminal_growth_range of the sensitivity matrix
WaccRanges == {<<>>, <<(<<1, 10>>)>>, <<(<<1, 10>>), (<<1, 4>>)>>, <<(<<1, 4>>), (<<1, 5>>), (<<1, 10>>)>>}

GrowthRanges == {<<>>, <<R(0)>>, <<(<<1, 50>>), R(0)>>, <<R(0), (<<1, 50>>), (<<1, 10>>)>>}

\* a forecast year as the statement builder returns it
BuilderYear(year, revenue, net_income, free_cash_flow) == [year |-> year, revenue |-> revenue, net_income |-> net_income, free_cash_flow |-> free_cash_flow]

\* a forecast year with its lines: ebit 40, ebt 40, tax 10, net income 30 and
\* the free cash flow follow from the others
DetailedYear(year, depreciation, capex) ==
    [year |-> year, revenue |-> R(100), cogs |-> R(40), operating_expenses |-> R(20),
     gross_profit |-> R(60), ebit |-> R(40), other_income |-> R(0),
     interest_expense |-> R(0), tax_rate |-> <<1, 4>>, net_income |-> R(30),
     depreciation |-> depreciation, capex |-> capex, change_in_working_capital |-> R(5),
     free_cash_flow |-> QSub(QAdd(R(25), depreciation), capex),
     inventory |-> R(8), accounts_receivable |-> R(12)]

BaseForecasts ==
    {<<>>,
     <<BuilderYear("2024", R(120), <<75, 2>>, R(-10)), BuilderYear("2025", R(240), R(80), R(50))>>,
     <<BuilderYear("2024", R(0), R(-20), R(-20)), BuilderYear("2025", R(0), R(-20), R(-20))>>,
     <<DetailedYear("2024", R(10), R(5)), DetailedYear("2025", R(10), R(5))>>,
     <<DetailedYear("2024", R(10), R(5))>>}

\* scenarios: no key, every delta 0, and non-zero deltas (in percent)
ZeroScenario == [revenueGrowth |-> R(0), operatingMargin |-> R(0), capex |-> R(0), workingCapitalDays |-> R(0), taxRate |-> R(0), wacc |-> R(0), terminalGrowth |-> R(0)]

Scenarios ==
    {<<>>, ZeroScenario,
     [revenueGrowth |-> R(10)],
     [operatingMargin |-> R(10), capex |-> R(20)],
     [workingCapitalDays |-> R(50), taxRate |-> R(5)],
     [taxRate |-> R(-50)],
     [revenueGrowth |-> R(-10), operatingMargin |-> R(200), taxRate |-> R(90), wacc |-> R(10), terminalGrowth |-> R(1)]}

\* variable_impacts of the tornado: no variable, the four types, or rates only
Impact(variable, type, low, high) == [variable |-> variable, type |-> type, low |-> low, high |-> high]

VariableImpacts ==
    {<<>>,
     <<Impact("Revenue Growth", "fcf", <<1, 2>>, R(2)), Impact("WACC", "wacc", <<1, 10>>, <<1, 4>>),
       Impact("Terminal Growth", "growth", R(0), <<1, 10>>), Impact("Other", "other", R(0), R(1))>>,
     <<Impact("Terminal Growth", "growth", R(0), <<1, 50>>), Impact("WACC", "wacc", <<1, 4>>, <<1, 10>>)>>}

\* forecasts whose adjusted free cash flows end the IRR loop within two
\* passes under every scenario: empty, one year, no revenue
QuickForecasts ==
    {<<>>, <<DetailedYear("2024", R(10), R(5))>>,
     <<BuilderYear("2024", R(120), <<75, 2>>, R(-10))>>,
     <<BuilderYear("2024", R(0), R(-20), R(-20)), BuilderYear("2025", R(0), R(-20), R(-20))>>}

\* forecasts a zero-delta scenario keeps: flows [30, 33] (the IRR is the
\* guess), [20, 11] (the IRR raises), and five years of flows of 0
SteadyForecasts ==
    {<<DetailedYear("2024", R(10), R(5)), DetailedYear("2025", R(13), R(5))>>,
     <<DetailedYear("2024", R(10), R(15)), DetailedYear("2025", R(10), R(24))>>,
     [k \in 1..5 |-> DetailedYear(<<"2024", "2025", "2026", "2027", "2028">>[k], R(10), R(35))]}

\* scenarios that move the discount rate and the terminal growth only
RateScenarios == {<<>>, ZeroScenario, [wacc |-> R(10)], [wacc |-> R(-50), terminalGrowth |-> R(1)]}

KpiCalls ==
    {[base_forecast |-> f, scenario_values |-> v] : f \in QuickForecasts, v \in Scenarios}
    \cup {[base_forecast |-> f, scenario_values |-> v] : f \in SteadyForecasts, v \in RateScenarios}

\* one item of sensitivity_ranges
RangeOf(variable, range) == [variable |-> variable, range |-> range]

\* ranges over the rates and the working capital, which leave the flows of a
\* steady forecast as they are
RateRanges ==
    <<RangeOf("terminalGrowth", [low |-> R(-1), high |-> R(1)]),
      RangeOf("wacc", [low |-> R(-10), high |-> R(10)]),
      RangeOf("workingCapitalDays", [low |-> R(-50), high |-> R(50)])>>

\* ranges that move the flows; the range of capex has no "low"
FlowRanges ==
    <<RangeOf("workingCapitalDays", [low |-> R(-50), high |-> R(50)]),
      RangeOf("capex", [high |-> R(20)]),
      RangeOf("taxRate", [low |-> R(-5), high |-> R(5)]),
      RangeOf("terminalGrowth", [low |-> R(-1), high |-> R(1)])>>

\* forecasts of at most one year, whose IRR loop ends in its first pass
OneYearForecasts ==
    {<<>>, <<DetailedYear("2024", R(10), R(5))>>,
     <<BuilderYear("2024", R(120), <<75, 2>>, R(-10))>>}

\* the two-year forecasts with flows [30, 33] and [20, 11]
TwoYearForecasts ==
    {<<DetailedYear("2024", R(10), R(5)), DetailedYear("2025", R(13), R(5))>>,
     <<DetailedYear("2024", R(10), R(15)), DetailedYear("2025", R(10), R(24))>>}

AnalysisCalls ==
    {[base_forecast |-> f, sensitivity_ranges |-> r] : f \in OneYearForecasts, r \in {<<>>, RateRanges, FlowRanges}}
    \cup {[base_forecast |-> f, sensitivity_ranges |-> r] : f \in TwoYearForecasts, r \in {<<>>, RateRanges}}

\* scenario_configs that move the flows, without "best", and without any key
FlowConfigs ==
    {<<>>,
     [best |-> [operatingMargin |-> R(10), capex |-> R(20)],
      worst |-> [workingCapitalDays |-> R(50), taxRate |-> R(5)]],
     [worst |-> [revenueGrowth |-> R(-10), operatingMargin |-> R(200), taxRate |-> R(90)]]}

\* scenario_configs that move the rates only
RateConfigs ==
    {<<>>, [best |-> [wacc |-> R(10)], worst |-> [wacc |-> R(-50), terminalGrowth |-> R(1)]]}

ComparisonCalls ==
    {[base_forecast |-> f, scenario_configs |-> c] : f \in QuickForecasts, c \in FlowConfigs \cup RateConfigs}
    \cup {[base_forecast |-> f, scenario_configs |-> c] : f \in SteadyForecasts, c \in RateConfigs}

(***************************************************************************)
(* The state machine: the engine is idle, a caller invokes one entry point *)
(* (the call runs to completion, the engine is synchronous), the caller    *)
(* takes the result and the engine is idle again.                          *)
(***************************************************************************)
Init ==
    /\ fn = "none"
    /\ args = <<>>
    /\ ret = <<>>
    /\ today = <<2024, 3>>

GenerateAmortizationTable ==
    /\ fn = "none"
    /\ \E loan_amount \in LoanAmounts, annual_rate \in AnnualRates,
          years \in 0..MaxTerm, periods_per_year \in PeriodsPerYear :
        /\ fn' = "generate_amortization_table"
        /\ args' = [loan_amount |-> loan_amount, annual_rate |-> annual_rate,
                    years |-> years, periods_per_year |-> periods_per_year]
        /\ ret' = generate_amortization_table(loan_amount, annual_rate, years,
                                              periods_per_year)
        /\ UNCHANGED today

CalcDepreciation ==
    /\ fn = "none"
    /\ \E method \in DepreciationMethods, cost \in AssetCosts,
          useful_life \in 1..MaxLife, salvage \in SalvageValues :
        /\ fn' = "calc_depr"
        /\ args' = [method |-> method, cost |-> cost, useful_life |-> useful_life,
                    salvage |-> salvage]
        /\ ret' = DepreciationSchedule(method, cost, useful_life, salvage)
        /\ UNCHANGED today

CalculateStatements ==
    /\ fn = "none"
    /\ \E sector \in Sectors, forecastPeriod \in 1..MaxForecast, items \in ItemLists,
          assets \in AssetLists, loans \in LoanLists, profile \in Profiles :
        LET data == StatementInput(sector, forecastPeriod, items, assets, loans, profile)
        IN  /\ fn' = "calculate_statements"
            /\ args' = data
            /\ ret' = calculate_statements(sector, data)
            /\ UNCHANGED today

CalculateTerminalValue ==
    /\ fn = "none"
    /\ \E method \in TerminalMethods, last_fcf \in LastFlows,
          discount_rate \in DiscountRates, terminal_growth \in GrowthRates,
          extras \in TerminalExtras :
        /\ fn' = "calculate_terminal_value"
        /\ args' = [method |-> method, last_fcf |-> last_fcf,
                    discount_rate |-> discount_rate, terminal_growth |-> terminal_growth,
                    tv_metric_value |-> extras.tv_metric_value,
                    tv_multiple |-> extras.tv_multiple,
                    tv_custom_value |-> extras.tv_custom_value]
        /\ ret' = calculate_terminal_value(method, last_fcf, discount_rate,
                      terminal_growth, extras.tv_metric_value, extras.tv_multiple,
                      extras.tv_custom_value)
        /\ UNCHANGED today

CalculateDcfValue ==
    /\ fn = "none"
    /\ \E free_cash_flows \in FlowLists, discount_rate \in DcfRates,
          terminal_value \in TerminalValues, terminal_year \in TerminalYears :
        /\ fn' = "calculate_dcf_value"
        /\ args' = [free_cash_flows |-> free_cash_flows, discount_rate |-> discount_rate,
                    terminal_value |-> terminal_value, terminal_year |-> terminal_year]
        /\ ret' = calculate_dcf_value(free_cash_flows, discount_rate, terminal_value,
                                      terminal_year)
        /\ UNCHANGED today

CalculatePaybackPeriod ==
    /\ fn = "none"
    /\ \E cash_flows \in FlowLists :
        /\ fn' = "calculate_payback_period"
        /\ args' = cash_flows
        /\ ret' = calculate_payback_period(cash_flows)
        /\ UNCHANGED today

CalculateIrr ==
    /\ fn = "none"
    /\ \E call \in IrrCalls :
        /\ fn' = "calculate_irr"
        /\ args' = call
        /\ ret' = calculate_irr(call.cash_flows, <<1, 10>>, call.max_iter, <<1, 1000000>>)
        /\ UNCHANGED today

MonteCarloNpvSimulation ==
    /\ fn = "none"
    /\ \E free_cash_flows \in MonteCarloFlows, discount_rate_range \in DiscountRateRanges,
          terminal_growth_range \in GrowthRateRanges, runs \in (-1)..MaxRuns :
        \E draws \in [Trials(runs) -> Uniform(discount_rate_range) \X Uniform(terminal_growth_range)] :
            /\ fn' = "monte_carlo_npv_simulation"
            /\ args' = [free_cash_flows |-> free_cash_flows,
                        discount_rate_range |-> discount_rate_range,
                        terminal_growth_range |-> terminal_growth_range,
                        runs |-> runs, draws |-> draws]
            /\ ret' = monte_carlo_npv_simulation(free_cash_flows, draws)
            /\ UNCHANGED today

CalculateSensitivityMatrix ==
    /\ fn = "none"
    /\ \E free_cash_flows \in FlowLists, wacc_range \in WaccRanges,
          terminal_growth_range \in GrowthRanges :
        /\ fn' = "calculate_sensitivity_matrix"
        /\ args' = [free_cash_flows |-> free_cash_flows, wacc_range |-> wacc_range,
                    terminal_growth_range |-> terminal_growth_range]
        /\ ret' = calculate_sensitivity_matrix(free_cash_flows, wacc_range,
                                               terminal_growth_range)
        /\ UNCHANGED today

ApplyScenarioToForecast ==
    /\ fn = "none"
    /\ \E base_forecast \in BaseForecasts, scenario_values \in Scenarios :
        /\ fn' = "apply_scenario_to_forecast"
        /\ args' = [base_forecast |-> base_forecast, scenario_values |-> scenario_values,
                    base_forecast_after |-> BaseForecastAfter(base_forecast, scenario_values)]
        /\ ret' = apply_scenario_to_forecast(base_forecast, scenario_values)
        /\ UNCHANGED today

CalculateNpv ==
    /\ fn = "none"
    /\ \E cash_flows \in FlowLists, discount_rate \in DcfRates :
        /\ fn' = "calculate_npv"
        /\ args' = [cash_flows |-> cash_flows, discount_rate |-> discount_rate]
        /\ ret' = calculate_npv(cash_flows, discount_rate)
        /\ UNCHANGED today

CalculateTornadoData ==
    /\ fn = "none"
    /\ \E free_cash_flows \in FlowLists, base_terminal_growth \in {R(0), <<1, 50>>},
          variable_impacts \in VariableImpacts :
        /\ fn' = "calculate_tornado_data"
        /\ args' = [free_cash_flows |-> free_cash_flows, base_discount_rate |-> <<1, 10>>,
                    base_terminal_growth |-> base_terminal_growth,
                    variable_impacts |-> variable_impacts]
        /\ ret' = calculate_tornado_data(free_cash_flows, <<1, 10>>, base_terminal_growth,
                                         variable_impacts)
        /\ UNCHANGED today

\* base_discount_rate and base_terminal_growth are the defaults, 0.1 and 0.02
CalculateScenarioKpis ==
    /\ fn = "none"
    /\ \E call \in KpiCalls :
        /\ fn' = "calculate_scenario_kpis"
        /\ args' = [base_forecast |-> call.base_forecast,
                    scenario_values |-> call.scenario_values,
                    base_forecast_after |->
                        BaseForecastAfter(call.base_forecast, call.scenario_values)]
        /\ ret' = calculate_scenario_kpis(call.base_forecast, call.scenario_values,
                                          <<1, 10>>, <<1, 50>>)
        /\ UNCHANGED today

\* base_discount_rate and base_terminal_growth are the defaults, 0.1 and 0.02
CalculateSensitivityAnalysis ==
    /\ fn = "none"
    /\ \E call \in AnalysisCalls :
        /\ fn' = "calculate_sensitivity_analysis"
        /\ args' = call
        /\ ret' = calculate_sensitivity_analysis(call.base_forecast, call.sensitivity_ranges,
                                                 <<1, 10>>, <<1, 50>>)
        /\ UNCHANGED today

\* args also holds the caller's list as the three calls leave it
CalculateScenarioComparison ==
    /\ fn = "none"
    /\ \E call \in ComparisonCalls :
        /\ fn' = "calculate_scenario_comparison"
        /\ args' = [base_forecast |-> call.base_forecast,
                    scenario_configs |-> call.scenario_configs,
                    base_forecast_after |->
                        BaseForecastAfter(AfterBest(call.base_forecast, call.scenario_configs),
                                          Get(call.scenario_configs, "worst", <<>>))]
        /\ ret' = calculate_scenario_comparison(call.base_forecast, call.scenario_configs)
        /\ UNCHANGED today

\* the caller keeps the statements it was given and the arguments it gave,
\* while time passes or not
HoldStatements ==
    /\ fn = "calculate_statements"
    /\ fn' = "statements_held"
    /\ \E later \in Clock :
        /\ later[1] > today[1] \/ (later[1] = today[1] /\ later[2] >= today[2])
        /\ today' = later
    /\ UNCHANGED <<args, ret>>

\* and makes the same call again
CalculateStatementsAgain ==
    /\ fn = "statements_held"
    /\ fn' = "calculate_statements_again"
    /\ ret' = [first |-> ret, second |-> calculate_statements(args.sector, args)]
    /\ UNCHANGED <<args, today>>

\* time passes between two calls
Tick ==
    /\ fn = "none"
    /\ \E later \in Clock :
        /\ later[1] > today[1] \/ (later[1] = today[1] /\ later[2] > today[2])
        /\ today' = later
    /\ UNCHANGED <<fn, args, ret>>

\* the caller takes the result
Return ==
    /\ fn # "none"
    /\ fn' = "none"
    /\ args' = <<>>
    /\ ret' = <<>>
    /\ UNCHANGED today

Next ==
    \/ GenerateAmortizationTable
    \/ CalcDepreciation
    \/ CalculateStatements
    \/ CalculateTerminalValue
    \/ CalculateDcfValue
    \/ CalculatePaybackPeriod
    \/ CalculateIrr
    \/ MonteCarloNpvSimulation
    \/ CalculateSensitivityMatrix
    \/ ApplyScenarioToForecast
    \/ CalculateNpv
    \/ CalculateTornadoData
    \/ CalculateScenarioKpis
    \/ CalculateSensitivityAnalysis
    \/ CalculateScenarioComparison
    \/ HoldStatements
    \/ CalculateStatementsAgain
    \/ Tick
    \/ Return

Spec == Init /\ [][Next]_vars

(***************************************************************************)
(* Claims about the Amortization Engine                                    *)
(***************************************************************************)
AmortCall == fn = "generate_amortization_table"

AmortPeriods == args.years * args.periods_per_year

\* C1: in every table returned for a term of n >= 1 periods, each row has
\* ending_balance = beginning_balance - principal, each row begins where the
\* previous one ended, the first row begins at the loan amount, and the final
\* row has principal = beginning_balance and ending_balance = 0.
C1_AmortizationRowInvariants ==
    (AmortCall /\ AmortPeriods >= 1) =>
        /\ Len(ret) >= 1
        /\ \A i \in 1..Len(ret) :
              ret[i].ending_balance = QSub(ret[i].beginning_balance, ret[i].principal)
        /\ \A i \in 1..(Len(ret) - 1) :
              ret[i + 1].beginning_balance = ret[i].ending_balance
        /\ ret[1].beginning_balance = args.loan_amount
        /\ ret[Len(ret)].principal = ret[Len(ret)].beginning_balance
        /\ ret[Len(ret)].ending_balance = R(0)

C1_Witness ==
    /\ AmortCall
    /\ Len(ret) >= 3
    /\ QLt(R(0), args.loan_amount)
    /\ QLt(R(0), args.annual_rate)
    /\ ret[2].principal # ret[1].principal

\* the principal column of a table
PrincipalColumn(table) == [i \in 1..Len(table) |-> table[i].principal]

\* C2: the table has exactly years x periods_per_year rows and, for a rate
\* r > 0 and a term of at least one period, its principal column sums to
\* the loan amount.
C2_RowCountAndPrincipalSum ==
    AmortCall =>
        /\ Len(ret) = args.years * args.periods_per_year
        /\ (QLt(R(0), args.annual_rate) /\ AmortPeriods >= 1) =>
              QSum(PrincipalColumn(ret)) = args.loan_amount

C2_Witness ==
    /\ AmortCall
    /\ args.periods_per_year = 2
    /\ args.years = 2
    /\ Len(ret) = 4
    /\ QLt(R(0), args.annual_rate)
    /\ QLt(R(0), args.loan_amount)
    /\ QSum(PrincipalColumn(ret)) = args.loan_amount

\* C3 as claimed: a loan of amount 0 yields a table of length 0, for any
\* rate and any term.
C3_ZeroLoanEmptyTable ==
    (AmortCall /\ args.loan_amount = R(0)) => Len(ret) = 0

ZeroRow(row) ==
    /\ row.beginning_balance = R(0)
    /\ row.payment = R(0)
    /\ row.interest = R(0)
    /\ row.principal = R(0)
    /\ row.ending_balance = R(0)

\* C3 as amended: the table is empty exactly when years x periods_per_year
\* is 0; for a loan of amount 0 and n >= 1 periods it has n rows, whose
\* balances, payment, interest and principal are all 0.
C3_EmptyOnlyForZeroPeriods ==
    AmortCall =>
        /\ (Len(ret) = 0) <=> (AmortPeriods = 0)
        /\ args.loan_amount = R(0) =>
              /\ Len(ret) = AmortPeriods
              /\ \A i \in 1..Len(ret) : ZeroRow(ret[i])

C3_Witness ==
    /\ AmortCall
    /\ args.loan_amount = R(0)
    /\ AmortPeriods >= 2
    /\ Len(ret) = AmortPeriods

(***************************************************************************)
(* Claims about the Depreciation Engine                                    *)
(***************************************************************************)
DeprCall(method) == fn = "calc_depr" /\ args.method = method

\* C4: straight-line depreciation returns exactly L entries, each equal to
\* (C - S)/L, and they sum to C - S.
C4_StraightLineSchedule ==
    DeprCall("straight_line") =>
        /\ Len(ret) = args.useful_life
        /\ \A i \in 1..Len(ret) :
              ret[i] = QDiv(QSub(args.cost, args.salvage), R(args.useful_life))
        /\ QSum(ret) = QSub(args.cost, args.salvage)

C4_Witness ==
    /\ DeprCall("straight_line")
    /\ args.useful_life >= 3
    /\ QLt(R(0), args.salvage)
    /\ QLt(args.salvage, args.cost)
    /\ Len(ret) = args.useful_life

\* C5 as claimed: for double_declining and sum_of_years_digits, with
\* cost >= salvage >= 0, the entries of the schedule sum to cost - salvage.
C5_AcceleratedSumsToDepreciableBase ==
    ((DeprCall("double_declining") \/ DeprCall("sum_of_years_digits"))
        /\ QLe(R(0), args.salvage) /\ QLe(args.salvage, args.cost)) =>
        QSum(ret) = QSub(args.cost, args.salvage)

(***************************************************************************)
(* Claims about the Statement Builder                                      *)
(***************************************************************************)
\* a call of calculate_statements that returned statements; args is its data
StatementsReturned == fn = "calculate_statements" /\ ret.raised = "none"

\* the closing cash balance of a cash-flow record
ClosingCash(row) ==
    IF args.sector = "retail" THEN row.closing_cash_balance ELSE row.ending_cash

\* the opening cash balance of cash-flow year k (1-based): recorded by the
\* retail builder; in service and SaaS the running balance before the year
OpeningCash(k) ==
    IF args.sector = "retail" THEN ret.cash_flow[k].opening_cash_balance
    ELSE IF k = 1 THEN InitialCash(args) ELSE ret.cash_flow[k - 1].ending_cash

NetChanges(k) == [j \in 1..k |-> ret.cash_flow[j].net_change_in_cash]

\* C6: in every sector and every forecast year, net_change_in_cash is
\* operating + investing + financing, closing cash is opening cash plus the
\* net change, the next year opens where this one closed, and so closing
\* cash is the initial opening cash plus all net changes so far.
C6_CashFold ==
    StatementsReturned =>
        /\ Len(ret.cash_flow) = ForecastYears(args)
        /\ \A k \in 1..Len(ret.cash_flow) :
              LET row == ret.cash_flow[k]
              IN  /\ row.net_change_in_cash =
                        QAdd(QAdd(row.net_cash_from_operating_activities,
                                  row.net_cash_from_investing_activities),
                             row.net_cash_from_financing_activities)
                  /\ ClosingCash(row) = QAdd(OpeningCash(k), row.net_change_in_cash)
                  /\ k > 1 => OpeningCash(k) = ClosingCash(ret.cash_flow[k - 1])
                  /\ ClosingCash(row) = QAdd(InitialCash(args), QSum(NetChanges(k)))

C6_Witness ==
    /\ StatementsReturned
    /\ args.sector = "retail"
    /\ Len(ret.cash_flow) >= 2
    /\ ret.cash_flow[1].net_change_in_cash # R(0)
    /\ ret.cash_flow[2].net_change_in_cash # R(0)
    /\ ret.cash_flow[2].opening_cash_balance = ret.cash_flow[1].closing_cash_balance
    /\ ret.cash_flow[2].net_cash_from_financing_activities # R(0)

\* C7: in every sector retained earnings fold in year order:
\* retained_earnings[0] = net_income[0], retained_earnings[y] =
\* retained_earnings[y-1] + net_income[y] (in SaaS minus the owner drawings
\* of the year), with the net income of the returned income statement, and
\* total_equity = share_capital + retained_earnings.
C7_RetainedEarningsFold ==
    StatementsReturned =>
        /\ Len(ret.balance_sheet) >= 1
        /\ \A k \in 1..Len(ret.balance_sheet) :
              LET equity == ret.balance_sheet[k].equity
                  prior == IF k = 1 THEN R(0)
                           ELSE ret.balance_sheet[k - 1].equity.retained_earnings
                  drawings == IF args.sector = "saas" THEN OwnerDrawings(args, k - 1)
                              ELSE R(0)
              IN  /\ equity.retained_earnings =
                        QSub(QAdd(prior, ret.income_statement[k].net_income), drawings)
                  /\ equity.total_equity =
                        QAdd(equity.share_capital, equity.retained_earnings)

C7_Witness ==
    /\ StatementsReturned
    /\ args.sector = "saas"
    /\ args.ownerDrawings.isList
    /\ Len(ret.balance_sheet) >= 2
    /\ ret.income_statement[1].interest_expense # R(0)
    /\ ret.balance_sheet[1].equity.retained_earnings # R(0)
    /\ ret.balance_sheet[2].equity.retained_earnings #
          ret.balance_sheet[1].equity.retained_earnings

\* the amount `field` of the schedule row of a loan that falls in year index y
ScheduleAmount(loan, y, field) ==
    LET table == LoanTable(args, loan)
        j == y - LoanStartIdx(args, loan)
    IN  IF 0 <= j /\ j < Len(table) THEN table[j + 1][field] ELSE R(0)

\* the sum over all loans of the schedule rows that fall in year index y
ScheduledInYear(y, field) ==
    QSum([k \in 1..Len(args.loans) |-> ScheduleAmount(args.loans[k], y, field)])

\* C8 as claimed: for every year index y of the income statement (0..N),
\* interest_expense[y] is the sum over the loans active in year y of the
\* interest of schedule row y - loan start index.
C8_InterestFromSchedules ==
    StatementsReturned =>
        \A y \in 0..(Len(ret.income_statement) - 1) :
            ret.income_statement[y + 1].interest_expense = ScheduledInYear(y, "interest")

\* the proceeds of the loans whose start index is y
ProceedsStartingIn(y) ==
    QSum([k \in 1..Len(args.loans) |->
            IF LoanStartIdx(args, args.loans[k]) = y THEN args.loans[k].amount
            ELSE R(0)])

\* C9 as claimed: in every forecast year y the loan proceeds in the
\* financing flow are those of the loans that start in year y, and the
\* principal repaid is the sum over the active loans of the principal of
\* schedule row y - loan start index.
C9_FinancingFollowsLoanStart ==
    StatementsReturned =>
        \A y \in 0..(Len(ret.cash_flow) - 1) :
            LET row == ret.cash_flow[y + 1]
                received == row.financing_activities[1][2]
            IN  /\ received = ProceedsStartingIn(y)
                /\ QSub(received, row.net_cash_from_financing_activities) =
                      ScheduledInYear(y, "principal")

\* the investments made in, and maturing in, calendar year `year`
InvestedIn(year) ==
    QSum([k \in 1..Len(args.investments) |->
            IF InvDate(args, args.investments[k]) = year
            THEN args.investments[k].amount ELSE R(0)])

MaturingIn(year) ==
    QSum([k \in 1..Len(args.investments) |->
            IF MaturityYear(args, args.investments[k]) = year
            THEN QAdd(args.investments[k].amount, args.investments[k].expectedReturn)
            ELSE R(0)])

\* C10 as claimed: in every forecast year y, net cash from investing is
\* -CapEx[y], minus the investments made in year y, plus amount and expected
\* return of the investments maturing in year y.
C10_InvestingIncludesInvestments ==
    StatementsReturned =>
        \A y \in 0..(Len(ret.cash_flow) - 1) :
            ret.cash_flow[y + 1].net_cash_from_investing_activities =
                QAdd(QSub(QNeg(Capex(args, y)), InvestedIn(BaseYear(args) + y)),
                     MaturingIn(BaseYear(args) + y))

\* the revenue and COGS lines of the returned income statement
RevenueAndCogs(income_statement) ==
    [k \in 1..Len(income_statement) |->
        <<income_statement[k].revenue, income_statement[k].cogs>>]

\* the revenue and COGS that the given lines alone produce in year index y
LinesRevenueAndCogs(lines, y) ==
    <<QSum([k \in 1..Len(lines) |->
              QMul(QMul(lines[k].price, Annualize(args, lines[k].volume)),
                   YearFactor(lines[k].growth, y))]),
      QSum([k \in 1..Len(lines) |->
              QMul(QMul(lines[k].cost, Annualize(args, lines[k].volume)),
                   YearFactor(lines[k].growth, y))])>>

\* C11: calculate_statements('saas', data) raises an input error and returns
\* no statements when no plan has price > 0, users > 0 and costPerUser >= 0
\* (a missing or empty list included); with a valid plan it succeeds and only
\* the valid plans make up revenue and COGS.  Retail and service with an
\* empty list do not raise and have revenue 0 and COGS 0 in every year.
C11_SaasPlansValidated ==
    fn = "calculate_statements" =>
        IF args.sector = "saas"
        THEN IF SelectSeq(args.items, ValidPlan) = <<>>
             THEN ret = [raised |-> "ValueError"]
             ELSE /\ ret.raised = "none"
                  /\ RevenueAndCogs(ret.income_statement) =
                        [k \in 1..(ForecastYears(args) + 1) |->
                            LinesRevenueAndCogs(SelectSeq(args.items, ValidPlan), k - 1)]
        ELSE /\ ret.raised = "none"
             /\ args.items = <<>> =>
                    RevenueAndCogs(ret.income_statement) =
                        [k \in 1..(ForecastYears(args) + 1) |-> <<R(0), R(0)>>]

C11_Witness ==
    /\ fn = "calculate_statements"
    /\ args.sector = "saas"
    /\ args.items = <<LineA, LineNegativeCost>>
    /\ ret.raised = "none"
    /\ ret.income_statement[1].cogs = R(48)

(***************************************************************************)
(* Claims about the valuation functions                                    *)
(***************************************************************************)
\* C12: with method 'perpetuity' calculate_terminal_value returns exactly 0
\* whenever discount_rate - terminal_growth <= 0.001 and last_fcf x (1 + g) /
\* (r - g) otherwise; 'exit-multiple' returns metric x multiple,
\* 'liquidation' the custom value, 'none' 0.
C12_TerminalValueByMethod ==
    fn = "calculate_terminal_value" =>
        /\ args.method = "perpetuity" =>
              IF QLe(QSub(args.discount_rate, args.terminal_growth), <<1, 1000>>)
              THEN ret = R(0)
              ELSE ret = QDiv(QMul(args.last_fcf, QAdd(R(1), args.terminal_growth)),
                              QSub(args.discount_rate, args.terminal_growth))
        /\ args.method = "exit-multiple" =>
              ret = QMul(args.tv_metric_value, args.tv_multiple)
        /\ args.method = "liquidation" => ret = args.tv_custom_value
        /\ args.method = "none" => ret = R(0)

\* the guard at its edge: r - g is exactly 0.001 and the flow is not 0
C12_Witness ==
    /\ fn = "calculate_terminal_value"
    /\ args.method = "perpetuity"
    /\ args.last_fcf = R(121)
    /\ QSub(args.discount_rate, args.terminal_growth) = <<1, 1000>>
    /\ ret = R(0)

\* the worked example: FCF = [100, 110, 121], r = 0.10, g = 0.02
ExampleTerminalCall ==
    /\ fn = "calculate_terminal_value"
    /\ args.method = "perpetuity" /\ args.last_fcf = R(121)
    /\ args.discount_rate = <<1, 10>> /\ args.terminal_growth = <<1, 50>>

ExampleDcfCall ==
    /\ fn = "calculate_dcf_value"
    /\ args = [free_cash_flows |-> <<R(100), R(110), R(121)>>, discount_rate |-> <<1, 10>>,
               terminal_value |-> Some(<<6171, 4>>), terminal_year |-> Some(3)]

\* |value - target| < 0.005: value is target when rounded to two decimals
RoundsTo(value, target) == QLt(QSub(value, target), <<1, 200>>) /\ QLt(QSub(target, value), <<1, 200>>)

\* C13: for FCF = [100, 110, 121], r = 0.10, g = 0.02, perpetuity method and
\* terminal_year = 3 the terminal value is 1542.75, and calculate_dcf_value,
\* discounting the flows at t = 1..n, returns 15750/11, which is 1431.82 to
\* two decimals.
C13_WorkedExample ==
    /\ ExampleTerminalCall => ret = Norm(154275, 100)
    /\ ExampleDcfCall => ret = <<15750, 11>> /\ RoundsTo(ret, <<143182, 100>>)

C13_Witness == ExampleDcfCall /\ ret = <<15750, 11>>

\* C13 as stated: the DCF value of the worked example is about 1431.98
C13_StatedValue == ExampleDcfCall => RoundsTo(ret, <<143198, 100>>)

\* C14: calculate_payback_period([-100, 50, 60]) returns 1.833 (one full
\* period, then 50 of the 60 of the second: 11/6).
C14_PaybackOfExample ==
    (fn = "calculate_payback_period" /\ args = <<R(-100), R(50), R(60)>>) =>
        ~ret.none /\ RoundsTo(ret.value, <<1833, 1000>>)

\* the sum of the first k flows
Cumulative(cash_flows, k) == QSum(SubSeq(cash_flows, 1, k))

\* the 0-based positions i at which the cumulative sum goes from negative to
\* non-negative
Crossings(cash_flows) == {i \in 0..(Len(cash_flows) - 1) : QLt(Cumulative(cash_flows, i), R(0)) /\ QLe(R(0), Cumulative(cash_flows, i + 1))}

FirstCrossing(cash_flows) == CHOOSE i \in Crossings(cash_flows) : \A j \in Crossings(cash_flows) : i <= j

\* C15: calculate_payback_period returns null for every series whose
\* cumulative sum never goes from negative to non-negative, and for the others
\* i - prev_cumulative / cf_i at the first crossing, i being the 0-based
\* position of the crossing flow.
C15_PaybackAtFirstCrossing ==
    fn = "calculate_payback_period" =>
        IF Crossings(args) = {} THEN ret = NoValue
        ELSE ret = Some(QSub(R(FirstCrossing(args)),
                             QDiv(Cumulative(args, FirstCrossing(args)),
                                  args[FirstCrossing(args) + 1])))

\* a series that crosses twice: the first crossing, at position 1, decides
C15_Witness ==
    /\ fn = "calculate_payback_period"
    /\ args = <<R(-100), R(100), R(-50), R(60)>>
    /\ Crossings(args) = {1, 3}
    /\ ret = Some(R(2))

\* C16: calculate_irr, started from guess 0.1 with the cap of 100 Newton
\* iterations, always returns a rate and never raises.
C16_IrrReturnsRate == (fn = "calculate_irr" /\ args.max_iter = 100) => ret.raised = "none"

\* the histogram has the seven bins in order and its counts sum to the runs
SevenBinsSummingToRuns ==
    /\ ret.raised = "none"
    /\ [i \in 1..Len(ret.histogram) |-> ret.histogram[i].bin] = <<"<0", "0-100k", "100k-200k", "200k-300k", "300k-400k", "400k-500k", ">500k">>
    /\ QSum([i \in 1..Len(ret.histogram) |-> R(ret.histogram[i].count)]) = R(args.runs)

CellDcf(flows, wacc, growth) ==
    QAdd(QSum([t \in 1..Len(flows) |-> QDiv(flows[t], QPow(QAdd(R(1), wacc), t))]),
         QDiv(IF QLe(QSub(wacc, growth), <<1, 1000>>) THEN R(0)
              ELSE QDiv(QMul(LastFcfOrZero(flows), QAdd(R(1), growth)), QSub(wacc, growth)),
              QPow(QAdd(R(1), wacc), Len(flows))))

\* C18: calculate_sensitivity_matrix returns one row per entry of wacc_range,
\* in order, each with one {growth, dcf} cell per entry of
\* terminal_growth_range, in order; the dcf of a cell is recomputed with the
\* row's discount rate and the terminal value for (growth, wacc).
C18_MatrixRowsAndCells ==
    fn = "calculate_sensitivity_matrix" =>
        /\ Len(ret) = Len(args.wacc_range)
        /\ \A i \in 1..Len(ret) :
            /\ ret[i].wacc = args.wacc_range[i]
            /\ Len(ret[i].values) = Len(args.terminal_growth_range)
            /\ \A j \in 1..Len(ret[i].values) :
                /\ ret[i].values[j].growth = args.terminal_growth_range[j]
                /\ ret[i].values[j].dcf =
                      CellDcf(args.free_cash_flows, args.wacc_range[i],
                              args.terminal_growth_range[j])

\* a 3 x 3 matrix of [100, 110, 121]; at wacc 10 % the cell of growth 2 % is
\* 15750/11 and the cell of growth 10 % has no terminal value
C18_Witness ==
    /\ fn = "calculate_sensitivity_matrix"
    /\ args.free_cash_flows = <<R(100), R(110), R(121)>>
    /\ Len(ret) = 3 /\ Len(ret[3].values) = 3
    /\ ret[3].wacc = <<1, 10>>
    /\ ret[3].values[2] = [growth |-> <<1, 50>>, dcf |-> <<15750, 11>>]
    /\ ret[3].values[3] = [growth |-> <<1, 10>>, dcf |-> <<3000, 11>>]

\* a scenario whose deltas are all 0, or that has no key
ZeroDelta(scenario_values) == \A key \in DOMAIN scenario_values : scenario_values[key] = R(0)

\* C19: apply_scenario_to_forecast with a zero-delta scenario (every
\* sensitivity 0, or an empty map) returns a forecast whose revenue,
\* net_income and free_cash_flow equal the base forecast's in every year.
C19_ZeroScenarioKeepsBase ==
    (fn = "apply_scenario_to_forecast" /\ ZeroDelta(args.scenario_values)) =>
        /\ Len(ret) = Len(args.base_forecast)
        /\ \A i \in 1..Len(ret) :
            /\ ret[i]["revenue"] = args.base_forecast[i]["revenue"]
            /\ ret[i]["net_income"] = args.base_forecast[i]["net_income"]
            /\ ret[i]["free_cash_flow"] = args.base_forecast[i]["free_cash_flow"]

\* the call in progress was given an empty FCF or forecast list
EmptySeriesCall ==
    \/ fn \in {"calculate_dcf_value", "calculate_sensitivity_matrix", "calculate_tornado_data", "monte_carlo_npv_simulation"} /\ args.free_cash_flows = <<>>
    \/ fn \in {"calculate_npv", "calculate_irr"} /\ args.cash_flows = <<>>
    \/ fn = "calculate_payback_period" /\ args = <<>>
    \/ fn = "calculate_scenario_kpis" /\ args.base_forecast = <<>>

\* C20: with an empty FCF or forecast list calculate_dcf_value, calculate_npv,
\* calculate_irr, calculate_payback_period, calculate_sensitivity_matrix,
\* calculate_tornado_data, monte_carlo_npv_simulation and
\* calculate_scenario_kpis each return a zero-valued, null or empty result
\* (for calculate_irr: a rate; for calculate_dcf_value: when no terminal value
\* other than 0 is passed), and none of them raises.
C20_EmptySeriesNeverRaises ==
    EmptySeriesCall =>
        /\ (fn = "calculate_dcf_value" /\ (args.terminal_value.none \/ args.terminal_value.value = R(0))) => ret = R(0)
        /\ fn = "calculate_npv" => ret = R(0)
        /\ fn = "calculate_irr" => ret.raised = "none"
        /\ fn = "calculate_payback_period" => ret = NoValue
        /\ fn = "calculate_sensitivity_matrix" =>
              \A i \in 1..Len(ret) : \A j \in 1..Len(ret[i].values) : ret[i].values[j].dcf = R(0)
        /\ fn = "calculate_tornado_data" =>
              /\ ret.raised = "none"
              /\ \A k \in 1..Len(ret.tornado) : ret.tornado[k].low = R(0) /\ ret.tornado[k].high = R(0) /\ ret.tornado[k].base = R(0)
        /\ fn = "monte_carlo_npv_simulation" =>
              /\ ret.raised = "none"
              /\ \A i \in 1..Len(ret.histogram) : ret.histogram[i].count = 0
        /\ fn = "calculate_scenario_kpis" =>
              /\ ret.npv = R(0) /\ ret.cumulative_fcf = R(0) /\ ret.payback_period = NoValue
              /\ ret.free_cash_flows = <<>> /\ ret.adjusted_forecast = <<>>

(***************************************************************************)
(* Claims about purity, the statement lines and the scenario engine        *)
(***************************************************************************)
\* C21: calculate_statements is a pure function of (sector, inputs): a second
\* call with equal arguments returns statements equal to the first call's,
\* whenever it is made; no hidden state, the clock included, influences the
\* result.
C21_SameResultWhenever == fn = "calculate_statements_again" => ret.second = ret.first

\* the book value after the first k entries of a schedule
BookAfter(cost, schedule, k) == QSub(cost, QSum(SubSeq(schedule, 1, k)))

\* C22: double-declining depreciation for cost C >= salvage S >= 0 and useful
\* life L >= 1 returns exactly L entries; with the book value starting at C,
\* each entry is min(book x 2/L, book - S) and is >= 0, the book value never
\* falls below S, and once it has reached S every remaining entry is 0.
C22_DoubleDecliningWalk ==
    (DeprCall("double_declining") /\ QLe(R(0), args.salvage) /\ QLe(args.salvage, args.cost)) =>
        /\ Len(ret) = args.useful_life
        /\ \A i \in 1..Len(ret) :
            /\ ret[i] = QMin(QMul(BookAfter(args.cost, ret, i - 1), QDiv(R(2), R(args.useful_life))),
                             QSub(BookAfter(args.cost, ret, i - 1), args.salvage))
            /\ QLe(R(0), ret[i])
            /\ QLe(args.salvage, BookAfter(args.cost, ret, i))
            /\ BookAfter(args.cost, ret, i - 1) = args.salvage => ret[i] = R(0)

\* 540 with a salvage of 270 over 4 years: the first charge reaches the
\* salvage value and the other three years are padded with 0
C22_Witness ==
    /\ DeprCall("double_declining")
    /\ args.cost = R(540) /\ args.salvage = R(270) /\ args.useful_life = 4
    /\ ret = <<R(270), R(0), R(0), R(0)>>

\* the identities between the lines of one income-statement record
IncomeIdentities(rec, tax_rate) ==
    /\ rec.gross_profit = QSub(rec.revenue, rec.cogs)
    /\ rec.ebitda = QSub(QAdd(QAdd(QSub(rec.gross_profit, rec.operating_expenses), rec.other_income), rec.investment_income), rec.other_costs)
    /\ rec.ebit = QSub(rec.ebitda, rec.depreciation_amortization)
    /\ rec.ebt = QSub(rec.ebit, rec.interest_expense)
    /\ rec.taxes = QMul(QMax(rec.ebt, R(0)), tax_rate)
    /\ QLe(rec.ebt, R(0)) => rec.taxes = R(0)
    /\ rec.net_income = QSub(rec.ebt, rec.taxes)

\* C23: every record of the returned income statement, for every year 0..N
\* and after loan interest has been applied, satisfies gross_profit = revenue
\* - cogs, ebitda = gross_profit - operating_expenses + other_income +
\* investment_income - other_costs, ebit = ebitda - depreciation_amortization,
\* ebt = ebit - interest_expense, taxes = max(ebt, 0) x tax_rate and
\* net_income = ebt - taxes.
C23_IncomeStatementIdentities ==
    StatementsReturned =>
        /\ Len(ret.income_statement) = ForecastYears(args) + 1
        /\ \A k \in 1..Len(ret.income_statement) : IncomeIdentities(ret.income_statement[k], TaxRate(args))

\* interest turns a profit before interest into a loss in one year, and
\* another year of the same statement is taxed
C23_Witness ==
    /\ StatementsReturned
    /\ \E k \in 1..Len(ret.income_statement) :
        /\ QLt(R(0), ret.income_statement[k].ebit)
        /\ QLt(R(0), ret.income_statement[k].interest_expense)
        /\ QLt(ret.income_statement[k].ebt, R(0))
        /\ ret.income_statement[k].taxes = R(0)
    /\ \E k \in 1..Len(ret.income_statement) : QLt(R(0), ret.income_statement[k].taxes)

\* the schedule row of a loan that falls in year index y (0-based row index)
LoanRowOfYear(loan, y) == y - LoanStartIdx(args, loan)

\* whether the loan's schedule has a row in year index y
LoanActive(loan, y) ==
    /\ 0 <= LoanRowOfYear(loan, y)
    /\ LoanRowOfYear(loan, y) < Len(LoanTable(args, loan))

\* the principal due in the period after year index y, 0 after the last row
NextPrincipalDue(loan, y) ==
    IF LoanRowOfYear(loan, y) + 1 < Len(LoanTable(args, loan))
    THEN LoanTable(args, loan)[LoanRowOfYear(loan, y) + 2].principal ELSE R(0)

\* the balance of the loan before the payment of year index y
RemainingBalance(loan, y) ==
    QSub(loan.amount,
         QSum([j \in 1..LoanRowOfYear(loan, y) |-> LoanTable(args, loan)[j].principal]))

\* the part of the loan due within the next period in year index y
ShortTermPart(loan, y) ==
    IF LoanActive(loan, y) THEN NextPrincipalDue(loan, y) ELSE R(0)

\* the part of the loan due later, floored at 0
LongTermPart(loan, y) ==
    IF LoanActive(loan, y)
    THEN QMax(QSub(RemainingBalance(loan, y), NextPrincipalDue(loan, y)), R(0))
    ELSE R(0)

\* the short-term debt of year index y over the loans with a schedule
ShortTermDebt(y) ==
    IF AmortizationTables(args) = <<>> THEN R(0)
    ELSE QSum([k \in 1..Len(args.loans) |-> ShortTermPart(args.loans[k], y)])

\* the long-term debt of year index y over the loans with a schedule
LongTermDebt(y) ==
    IF AmortizationTables(args) = <<>> THEN R(0)
    ELSE QSum([k \in 1..Len(args.loans) |-> LongTermPart(args.loans[k], y)])

\* the debt lines of one balance-sheet record come from the schedules
DebtFromSchedules(liabilities, y) ==
    /\ "short_term_debt" \in DOMAIN liabilities
    /\ liabilities.short_term_debt = ShortTermDebt(y)
    /\ liabilities.long_term_debt = LongTermDebt(y)

\* C24: in the balance sheet of every sector, for every year the short-term
\* debt is the sum over the active loans of the next period's principal due
\* and the long-term debt is the sum over the active loans of the remaining
\* balance less that principal, floored at 0; a loan whose schedule has
\* ended contributes 0
C24_DebtFromSchedules ==
    StatementsReturned =>
        \A k \in 1..Len(ret.balance_sheet) :
            DebtFromSchedules(ret.balance_sheet[k].liabilities, k - 1)

\* the DCF of the call's series scaled by factor, at the rate and growth
\* given, with the terminal value of the scaled last flow
TornadoDcf(factor, growth, rate) ==
    calculate_dcf_value(
        [k \in 1..Len(args.free_cash_flows) |-> QMul(args.free_cash_flows[k], factor)],
        rate,
        Some(terminal_value_func(
                QMul(LastFcfOrZero(args.free_cash_flows), factor), growth, rate)),
        NoValue)

\* the DCF of the call at its base rate and growth
TornadoBase == TornadoDcf(R(1), args.base_terminal_growth, args.base_discount_rate)

\* the value the entry of an impact holds at one end of its range
TornadoEnd(impact, end) ==
    IF impact.type = "fcf"
    THEN TornadoDcf(end, args.base_terminal_growth, args.base_discount_rate)
    ELSE IF impact.type = "wacc" THEN TornadoDcf(R(1), args.base_terminal_growth, end)
    ELSE IF impact.type = "growth" THEN TornadoDcf(R(1), end, args.base_discount_rate)
    ELSE TornadoBase

\* C25: calculate_tornado_data returns one entry per variable in the order
\* of the map, each with the same base, the DCF at the base rate and growth;
\* 'fcf' scales the whole series, 'wacc' replaces only the discount rate
\* (terminal value recomputed at that rate), 'growth' replaces only the
\* terminal growth, and any other type gives low = high = base
C25_TornadoEntries ==
    (fn = "calculate_tornado_data" /\ ret.raised = "none") =>
        /\ Len(ret.tornado) = Len(args.variable_impacts)
        /\ \A k \in 1..Len(ret.tornado) :
            /\ ret.tornado[k].variable = args.variable_impacts[k].variable
            /\ ret.tornado[k].base = TornadoBase
            /\ ret.tornado[k].low =
                    TornadoEnd(args.variable_impacts[k], args.variable_impacts[k].low)
            /\ ret.tornado[k].high =
                    TornadoEnd(args.variable_impacts[k], args.variable_impacts[k].high)

\* a call with the four types whose 'fcf', 'wacc' and 'growth' entries each
\* have two different ends, and whose 'fcf' and 'growth' ends both differ
\* from the base
C25_Witness ==
    /\ fn = "calculate_tornado_data"
    /\ ret.raised = "none"
    /\ Len(ret.tornado) = 4
    /\ args.free_cash_flows = <<R(100), R(110), R(121)>>
    /\ \A k \in 1..3 : ret.tornado[k].low # ret.tornado[k].high
    /\ \A k \in {1, 3} :
        /\ ret.tornado[k].low # ret.tornado[k].base
        /\ ret.tornado[k].high # ret.tornado[k].base
    /\ ret.tornado[4].low = ret.tornado[4].base
    /\ ret.tornado[4].high = ret.tornado[4].base

\* C26: in the forecast apply_scenario_to_forecast returns, the revenue of
\* the first year is the base revenue of that year, the revenue of every
\* later year is the adjusted revenue of the year before times
\* (1 + revenueGrowth / 100), and the tax rate of every year lies in [0, 1]
C26_RevenueCompoundsTaxClamped ==
    fn = "apply_scenario_to_forecast" =>
        /\ Len(ret) = Len(args.base_forecast)
        /\ \A i \in 1..Len(ret) :
            /\ i = 1 => ret[i]["revenue"] = args.base_forecast[i]["revenue"]
            /\ i > 1 =>
                ret[i]["revenue"] =
                    QMul(ret[i - 1]["revenue"],
                         QAdd(R(1), QDiv(Get(args.scenario_values, "revenueGrowth", R(0)),
                                         R(100))))
            /\ QLe(R(0), ret[i]["tax_rate"])
            /\ QLe(ret[i]["tax_rate"], R(1))

\* a two-year forecast under -10 % growth and +90 points of tax: the second
\* revenue is 108, not the base 240, and the tax rate stops at 1
C26_Witness ==
    /\ fn = "apply_scenario_to_forecast"
    /\ Len(ret) = 2
    /\ args.base_forecast[2]["revenue"] = R(240)
    /\ ret[2]["revenue"] = R(108)
    /\ ret[2]["tax_rate"] = R(1)

\* the cash of balance-sheet record k is the closing cash of cash-flow year k
CashFromCashFlow(k) ==
    /\ k <= Len(ret.cash_flow)
    /\ ret.cash_flow[k].year = ret.balance_sheet[k].year
    /\ ret.balance_sheet[k].assets.cash = ClosingCash(ret.cash_flow[k])

\* C27: in every sector, the cash of every balance-sheet record equals the
\* closing cash balance of the cash-flow statement for the same year
C27_BalanceSheetCashIsClosingCash ==
    StatementsReturned => \A k \in 1..Len(ret.balance_sheet) : CashFromCashFlow(k)

\* whether the running cumulative sum is negative before some flow
EverNegative(cash_flows) ==
    \E k \in 0..(Len(cash_flows) - 1) : QLt(Cumulative(cash_flows, k), R(0))

\* C28: calculate_payback_period returns a number exactly when at some
\* position the running cumulative sum is negative before the flow and
\* non-negative after it; a series whose cumulative sum is never negative
\* returns null; a returned r, for the crossing position i, has i < r <= i + 1
C28_PaybackWithinCrossingPeriod ==
    fn = "calculate_payback_period" =>
        /\ ~ret.none <=> Crossings(args) # {}
        /\ ~EverNegative(args) => ret.none
        /\ ~ret.none =>
            /\ QLt(R(FirstCrossing(args)), ret.value)
            /\ QLe(ret.value, R(FirstCrossing(args) + 1))

\* -100, 50, 60: the sum crosses at position 2 and the payback, 2 + 50/60,
\* lies strictly inside the period
C28_Witness ==
    /\ fn = "calculate_payback_period"
    /\ args = <<R(-100), R(50), R(60)>>
    /\ Crossings(args) = {2}
    /\ ret = Some(<<17, 6>>)

\* the scenario without its terminalGrowth and workingCapitalDays deltas
WithoutGrowthAndWorkingCapital(scenario_values) ==
    [k \in (DOMAIN scenario_values) \ {"terminalGrowth", "workingCapitalDays"} |->
        scenario_values[k]]

\* the NPV of the flows of the scenario at its discount rate
NpvOfScenario(base_forecast, scenario_values, base_discount_rate) ==
    calculate_npv(FreeCashFlowsOf(apply_scenario_to_forecast(base_forecast, scenario_values)),
                  QMul(base_discount_rate,
                       QAdd(R(1), QDiv(Get(scenario_values, "wacc", R(0)), R(100)))))

\* C29: the NPV of calculate_scenario_kpis is the NPV of the scenario without
\* its terminalGrowth and workingCapitalDays deltas, and in
\* calculate_sensitivity_analysis the entries of these two variables have
\* low_npv = high_npv = base_npv
C29_NpvIgnoresGrowthAndWorkingCapital ==
    /\ fn = "calculate_scenario_kpis" =>
        ret.npv = NpvOfScenario(args.base_forecast,
                      WithoutGrowthAndWorkingCapital(args.scenario_values), <<1, 10>>)
    /\ fn = "calculate_sensitivity_analysis" =>
        \A k \in 1..Len(ret.tornado_data) :
            ret.tornado_data[k].variable \in {"terminalGrowth", "workingCapitalDays"} =>
                /\ ret.tornado_data[k].low_npv = ret.tornado_data[k].base_npv
                /\ ret.tornado_data[k].high_npv = ret.tornado_data[k].base_npv

\* an analysis of a two-year forecast in which the discount rate moves the
\* NPV while the terminal growth and the working capital do not
C29_Witness ==
    /\ fn = "calculate_sensitivity_analysis"
    /\ Len(args.base_forecast) = 2
    /\ Len(ret.tornado_data) = 3
    /\ ret.tornado_data[1].variable = "wacc"
    /\ ret.tornado_data[1].low_npv # ret.tornado_data[1].high_npv
    /\ ret.tornado_data[2].variable = "terminalGrowth"
    /\ ret.tornado_data[2].low_npv = ret.tornado_data[2].base_npv
    /\ ret.tornado_data[3].variable = "workingCapitalDays"
    /\ ret.tornado_data[3].base_npv # R(0)

\* the calls of the scenario engine that are handed a base forecast
ScenarioCall ==
    fn \in {"apply_scenario_to_forecast", "calculate_scenario_kpis",
            "calculate_scenario_comparison"}

====
